---- MODULE Spec2Model ----
(***************************************************************************)
(* A model of the safety pipeline of the chatbot gateway:                  *)
(*   - the safety configuration merger   (safety/safety-filter.ts),        *)
(*   - the keyword pre-filter            (safety/safety-filter.ts,         *)
(*                                        safety/keyword-lists.ts),        *)
(*   - the semantic (LLM) safety checker (safety/llm-safety-checker.ts),   *)
(*   - the POST /api/chat handler        (routes/chat.ts),                 *)
(*   - the Chatbot orchestrator          (chatbot.ts),                     *)
(*   - its SafetyChecker                 (safety/safety-checker.ts).       *)
(*                                                                         *)
(* Conventions.                                                            *)
(*   Text is a sequence of tokens (words, whitespace, punctuation marks),  *)
(*   so that concatenation, prefixes and trimming are computed.            *)
(*   An optional value (a property that may be undefined) is a sequence of *)
(*   length 0 (undefined) or 1 (the value).  An object whose property is   *)
(*   missing altogether is a record without that field.                    *)
(***************************************************************************)
EXTENDS Integers, Sequences, FiniteSets, TLC

VARIABLES
    DEFAULT_SAFETY_CONFIG,  \* the process-wide platform default object
    mg,                     \* one call of mergeSafetyConfig: its argument and result
    rq,                     \* one POST /api/chat request: the handler's locals
    ck,                     \* one direct call of checkInput, checkOutput or checkWithLLM
    other,                  \* a second POST /api/chat request in flight with the first
    cb,                     \* one call of Chatbot.chat: its locals and the provider calls made
    sc                      \* one direct call of SafetyChecker.check

vars == <<DEFAULT_SAFETY_CONFIG, mg, rq, ck, other, cb, sc>>

(***************************************************************************)
(* Optional values and JavaScript truthiness.                              *)
(***************************************************************************)
None == <<>>

Some(v) == <<v>>

IsSome(opt) == opt # <<>>

\* `x ? a : b` on an optional number: undefined and 0 are falsy.
TruthyNumber(opt) == IsSome(opt) /\ opt[1] # 0

\* `x ? a : b` on an optional string: undefined and "" are falsy.
TruthyString(opt) == IsSome(opt) /\ opt[1] # <<>>

\* `x ? a : b` on an optional array: every array, the empty one too, is truthy.
TruthyArray(opt) == IsSome(opt)

Min(a, b) == IF a <= b THEN a ELSE b

SeqToSet(s) == {s[i] : i \in 1..Len(s)}

(***************************************************************************)
(* types/safety.ts: the platform default.                                  *)
(***************************************************************************)
BlockedTopics ==
    <<"violence", "sexual_content", "self_harm", "hate_speech", "drugs_alcohol",
      "profanity", "personal_information", "dangerous_activities",
      "academic_dishonesty">>

DEFAULT_LLM_SAFETY_MODEL == [provider |-> "gpt", modelId |-> "gpt-4o-mini"]

DefaultMaxInputLength == 2000

DefaultMaxOutputTokens == 1024

DefaultMaxFileSizeBytes == 5 * 1024 * 1024

DefaultMimeTypes == <<"application/pdf", "text/plain", "image/png", "image/jpeg">>

\* The seven sentences of the default system prompt prefix, joined by " ".
DefaultSystemPromptPrefix ==
    <<"You are a helpful educational assistant for middle school students (ages 10-14).", " ",
      "Always provide age-appropriate, safe, and educational responses.", " ",
      "Never produce content involving violence, sexual themes, self-harm, hate speech, drugs, alcohol, or profanity.", " ",
      "Do not ask for or reveal personal information such as full names, addresses, phone numbers, or school names.", " ",
      "If a student asks about dangerous activities, redirect them to speak with a trusted adult.", " ",
      "Do not help with cheating or academic dishonesty. Guide students toward understanding rather than giving direct answers.", " ",
      "Keep language simple, encouraging, and supportive.">>

\* The value DEFAULT_SAFETY_CONFIG is initialised to at startup.
StartupSafetyConfig ==
    [level                |-> "strict",
     blockedTopics        |-> BlockedTopics,
     maxInputLength       |-> DefaultMaxInputLength,
     maxOutputTokens      |-> DefaultMaxOutputTokens,
     allowImageInput      |-> TRUE,
     allowFileUpload      |-> TRUE,
     allowedFileMimeTypes |-> DefaultMimeTypes,
     maxFileSizeBytes     |-> DefaultMaxFileSizeBytes,
     systemPromptPrefix   |-> DefaultSystemPromptPrefix,
     llmSafety            |-> [enabled      |-> TRUE,
                               model        |-> DEFAULT_LLM_SAFETY_MODEL,
                               customPrompt |-> None]]

(***************************************************************************)
(* safety/safety-filter.ts: mergeSafetyConfig.                             *)
(***************************************************************************)
RECURSIVE Dedupe(_, _)
\* [...new Set(s)]: the elements of s in order of first occurrence.
Dedupe(s, seen) ==
    IF s = <<>> THEN <<>>
    ELSE IF Head(s) \in seen THEN Dedupe(Tail(s), seen)
    ELSE <<Head(s)>> \o Dedupe(Tail(s), seen \cup {Head(s)})

\* A merge that takes the caller's topics in place of the defaults.
unionTopics_CallerOnly(base, extra) == Dedupe(extra, {})

unionTopics(base, extra) == Dedupe(base \o extra, {})

\* A merge that takes the caller's list as it is.
intersectArrays_Unfiltered(base, requested) == requested

intersectArrays(base, requested) ==
    LET allowed == SeqToSet(base)
        IsAllowed(t) == t \in allowed
    IN  SelectSeq(requested, IsAllowed)

\* lines 26-28: a "moderate" request cannot weaken a "strict" default.
mergeLevel(defaultLevel, level) ==
    IF IsSome(level) /\ level[1] = "moderate" /\ defaultLevel = "strict"
    THEN "strict"
    ELSE IF IsSome(level) THEN level[1] ELSE defaultLevel

\* A merge that takes the caller's limit unclamped.
mergeLimit_Unclamped(defaultLimit, limit) ==
    IF TruthyNumber(limit) THEN limit[1] ELSE defaultLimit

\* lines 34-40 and 52-54: `limit ? Math.min(limit, default) : default`.
mergeLimit(defaultLimit, limit) ==
    IF TruthyNumber(limit) THEN Min(limit[1], defaultLimit) ELSE defaultLimit

\* A merge that takes the caller's flag whenever it is given.
mergeFlag_CallerWins(defaultFlag, flag) ==
    IF IsSome(flag) THEN flag[1] ELSE defaultFlag

\* lines 42-46: `flag === false ? false : default`.
mergeFlag(defaultFlag, flag) ==
    IF IsSome(flag) /\ flag[1] = FALSE THEN FALSE ELSE defaultFlag

\* A merge that replaces the default prefix by the caller's.
mergePrefix_Replaced(defaultPrefix, prefix) ==
    IF TruthyString(prefix) THEN prefix[1] ELSE defaultPrefix

\* lines 56-59: `prefix ? default + " " + prefix : default`.
mergePrefix(defaultPrefix, prefix) ==
    IF TruthyString(prefix) THEN defaultPrefix \o <<" ">> \o prefix[1]
    ELSE defaultPrefix

\* The merge of a present override object o with the defaults: the object
\* literal of lines 25-60.  It has no llmSafety property.
MergedLiteral(defaults, o) ==
    [level |-> mergeLevel(defaults.level, o.level),
     blockedTopics |->
        IF TruthyArray(o.blockedTopics)
        THEN unionTopics(defaults.blockedTopics, o.blockedTopics[1])
        ELSE defaults.blockedTopics,
     maxInputLength  |-> mergeLimit(defaults.maxInputLength, o.maxInputLength),
     maxOutputTokens |-> mergeLimit(defaults.maxOutputTokens, o.maxOutputTokens),
     allowImageInput |-> mergeFlag(defaults.allowImageInput, o.allowImageInput),
     allowFileUpload |-> mergeFlag(defaults.allowFileUpload, o.allowFileUpload),
     allowedFileMimeTypes |->
        IF TruthyArray(o.allowedFileMimeTypes)
        THEN intersectArrays(defaults.allowedFileMimeTypes, o.allowedFileMimeTypes[1])
        ELSE defaults.allowedFileMimeTypes,
     maxFileSizeBytes   |-> mergeLimit(defaults.maxFileSizeBytes, o.maxFileSizeBytes),
     systemPromptPrefix |-> mergePrefix(defaults.systemPromptPrefix, o.systemPromptPrefix)]

\* A merge that builds the literal on every path.
mergeSafetyConfig_AlwaysLiteral(overrides) ==
    MergedLiteral(DEFAULT_SAFETY_CONFIG,
                  IF IsSome(overrides) THEN overrides[1]
                  ELSE [f \in {"level", "blockedTopics", "maxInputLength", "maxOutputTokens",
                               "allowImageInput", "allowFileUpload", "allowedFileMimeTypes",
                               "maxFileSizeBytes", "systemPromptPrefix", "llmSafety"} |-> <<>>])

\* overrides is optional: None is a call without argument (line 21 returns a
\* shallow copy of the default, llmSafety included).
mergeSafetyConfig(overrides) ==
    IF ~IsSome(overrides) THEN DEFAULT_SAFETY_CONFIG
    ELSE MergedLiteral(DEFAULT_SAFETY_CONFIG, overrides[1])

(***************************************************************************)
(* Text.  A text is a sequence of tokens; a token is a word, a punctuation *)
(* mark or one whitespace character.  Words are lower-case unless Lower    *)
(* says otherwise; a word token is a maximal run of word characters.       *)
(***************************************************************************)
Whitespace == {" ", "\n"}

\* A run of 2001 letters without a space, standing for an over-long input.
LongWord == "<2001 letters>"

\* String.length of one token.
TokenLength(t) == IF t = LongWord THEN 2001 ELSE Len(t)

RECURSIVE TextLength(_)
\* String.length of a text.
TextLength(text) ==
    IF text = <<>> THEN 0 ELSE TokenLength(Head(text)) + TextLength(Tail(text))

RECURSIVE JoinTexts(_, _)
\* Array.prototype.join: the texts of a list, sep between neighbours.
JoinTexts(texts, sep) ==
    IF texts = <<>> THEN <<>>
    ELSE IF Len(texts) = 1 THEN texts[1]
    ELSE texts[1] \o sep \o JoinTexts(Tail(texts), sep)

RECURSIVE TrimStart(_)
TrimStart(text) ==
    IF text # <<>> /\ Head(text) \in Whitespace THEN TrimStart(Tail(text)) ELSE text

RECURSIVE TrimEnd(_)
TrimEnd(text) ==
    IF text # <<>> /\ text[Len(text)] \in Whitespace
    THEN TrimEnd(SubSeq(text, 1, Len(text) - 1)) ELSE text

\* String.prototype.trim
Trim(text) == TrimEnd(TrimStart(text))

\* The /i flag of the patterns: the lower-case form of a token.
Lower(t) ==
    CASE t = "Kill" -> "kill"
      [] t = "DAMN" -> "damn"
      [] t = "JSON" -> "json"
      [] OTHER -> t

(***************************************************************************)
(* safety/keyword-lists.ts: TOPIC_PATTERNS.  A regular expression is the   *)
(* set of its phrases; a phrase is a sequence of word sets, matched by     *)
(* consecutive words of the text with whitespace (\s+) between them.  A    *)
(* pattern without a closing \b matches every word that begins with its    *)
(* last word: Beginning lists those words of the vocabulary.               *)
(***************************************************************************)
Beginning(prefix) ==
    CASE prefix = "shoot"     -> {"shoot", "shooting", "shooter"}
      [] prefix = "threat"    -> {"threat", "threats"}
      [] prefix = "weapon"    -> {"weapon", "weapons"}
      [] prefix = "bomb"      -> {"bomb", "bombs"}
      [] prefix = "gun"       -> {"gun", "guns"}
      [] prefix = "porn"      -> {"porn", "pornography"}
      [] prefix = "content"   -> {"content", "contents"}
      [] prefix = "nude"      -> {"nude", "nudes"}
      [] prefix = "suicid"    -> {"suicide", "suicidal"}
      [] prefix = "harm"      -> {"harm", "harming"}
      [] prefix = "self-harm" -> {"self-harm", "self-harming"}
      [] prefix = "selfharm"  -> {"selfharm", "selfharming"}
      [] prefix = "slur"      -> {"slur", "slurs"}
      [] prefix = "homophob"  -> {"homophobe", "homophobic"}
      [] prefix = "transphob" -> {"transphobe", "transphobic"}
      [] prefix = "xenophob"  -> {"xenophobe", "xenophobic"}
      [] prefix = "fuck"      -> {"fuck", "fuuuck", "fucking"}
      [] prefix = "asshole"   -> {"asshole", "assshole", "assholes"}
      [] prefix = "bitch"     -> {"bitch", "bitches"}
      [] prefix = "security"  -> {"security"}
      [] prefix = "fire"      -> {"fire", "fires", "firework"}
      [] prefix = "explosive" -> {"explosive", "explosives"}
      [] prefix = "poison"    -> {"poison", "poisons"}
      [] prefix = "lock"      -> {"lock", "locks"}

\* \w+ : the word tokens (every token but whitespace and punctuation).
Punctuation == {".", ",", "?", "!", "***"}

IsWord(t) == t \notin Whitespace /\ t \notin Punctuation

HowTo(verbs, objects) ==
    {<<{"how"}, {"to"}, verbs, objects>>, <<{"how"}, {"to"}, verbs, {"a"}, objects>>}

TOPIC_PATTERNS(topic) ==
    CASE topic = "violence" ->
            {<<{"kill"}, {"you", "him", "her", "them", "myself", "yourself", "someone"}>>,
             <<{"school"}, Beginning("shoot")>>,
             <<{"bomb"}, Beginning("threat")>>,
             <<{"torture"}>>,
             <<{"murder"}>>}
            \cup HowTo({"make", "build"},
                       Beginning("weapon") \cup Beginning("bomb") \cup Beginning("gun"))
      [] topic = "sexual_content" ->
            {<<Beginning("porn")>>,
             <<{"sexual"}, Beginning("content")>>,
             <<Beginning("nude")>>,
             <<{"explicit"}>>,
             <<{"nsfw"}>>}
      [] topic = "self_harm" ->
            {<<{"kill"}, {"myself"}>>,
             <<Beginning("suicid")>>,
             <<Beginning("self-harm") \cup Beginning("selfharm")>>,
             <<{"self"}, {"[ ]"}, Beginning("harm")>>,
             <<{"cut"}, {"myself"}>>,
             <<{"want"}, {"to"}, {"die"}>>,
             <<{"end"}, {"my"}, {"life"}>>}
      [] topic = "hate_speech" ->
            {<<Beginning("slur")>>,
             <<{"hate"}, {"all", "every"}, {"\\w+"}>>,
             <<{"racist"}>>,
             <<Beginning("homophob")>>,
             <<Beginning("transphob")>>,
             <<Beginning("xenophob")>>}
      [] topic = "drugs_alcohol" ->
            {<<{"how"}, {"to"}, {"buy", "get", "make", "use"},
               {"drugs", "weed", "cocaine", "meth", "heroin", "alcohol"}>>,
             <<{"get"}, {"high", "drunk", "wasted"}>>,
             <<{"vaping"}>>}
      [] topic = "profanity" ->
            {<<Beginning("fuck")>>,
             <<{"shit", "shiit"}>>,
             <<Beginning("asshole")>>,
             <<Beginning("bitch")>>,
             <<{"damn"}>>}
      [] topic = "personal_information" ->
            {<<{"my"}, {"address"}, {"is"}>>,
             <<{"my"}, {"home"}, {"address"}, {"is"}>>,
             <<{"my"}, {"phone"}, {"is"}>>,
             <<{"my"}, {"phone"}, {"number"}, {"is"}>>,
             <<{"my"}, {"social"}, Beginning("security")>>,
             <<{"my"}, {"password"}, {"is"}>>,
             <<{"ssn"}>>}
      [] topic = "dangerous_activities" ->
            {<<{"how"}, {"to"}, {"hack"}>>,
             <<{"how"}, {"to"}, {"steal"}>>,
             <<{"how"}, {"to"}, {"pick"}, {"a"}, Beginning("lock")>>}
            \cup HowTo({"make", "build"},
                       Beginning("fire") \cup Beginning("explosive") \cup Beginning("poison"))
      [] topic = "academic_dishonesty" ->
            {<<{"write"}, {"my"}, {"essay", "paper", "homework", "assignment"}>>,
             <<{"write"}, {"my"}, {"entire"}, {"essay", "paper", "homework", "assignment"}>>,
             <<{"do"}, {"my"}, {"homework"}>>,
             <<{"give"}, {"me"}, {"the"}, {"answer", "answers"}>>,
             <<{"complete"}, {"this"}, {"test", "exam", "quiz"}, {"for"}, {"me"}>>}
      [] OTHER -> {}

\* One word set of a phrase against one token.
WordMatches(wordSet, t) ==
    IF wordSet = {"\\w+"} THEN IsWord(t) ELSE Lower(t) \in wordSet

RECURSIVE PhraseMatchesAt(_, _, _)
\* The phrase matches the text with its first word at position i.
PhraseMatchesAt(text, phrase, i) ==
    IF phrase = <<>> THEN TRUE
    ELSE IF i > Len(text) \/ ~WordMatches(Head(phrase), text[i]) THEN FALSE
    ELSE IF Len(phrase) = 1 THEN TRUE
    ELSE IF phrase[2] = {"[ ]"}      \* exactly one space, as in self[- ]?harm
    THEN /\ i + 2 <= Len(text)
         /\ text[i + 1] = " "
         /\ PhraseMatchesAt(text, Tail(Tail(phrase)), i + 2)
    ELSE \E j \in (i + 2)..Len(text) :
            /\ \A k \in (i + 1)..(j - 1) : text[k] \in Whitespace
            /\ PhraseMatchesAt(text, Tail(phrase), j)

\* re.test(text)
PhraseMatches(text, phrase) ==
    \E i \in 1..Len(text) : PhraseMatchesAt(text, phrase, i)

(***************************************************************************)
(* safety/safety-filter.ts: the keyword pre-filter.                        *)
(***************************************************************************)
TextsOf(parts) ==
    LET IsText(p) == p.type = "text"
        texts == SelectSeq(parts, IsText)
    IN  [k \in 1..Len(texts) |-> texts[k].text]

\* The texts of the text parts, joined by " ".
extractText(parts) == JoinTexts(TextsOf(parts), <<" ">>)

SafeResult == [safe |-> TRUE, flaggedTopics |-> <<>>, reason |-> None]

\* The topics of blockedTopics, in order, one of whose patterns matches.
scanText(text, blockedTopics) ==
    LET Hit(topic) == \E phrase \in TOPIC_PATTERNS(topic) : PhraseMatches(text, phrase)
        flagged == SelectSeq(blockedTopics, Hit)
    IN  IF Len(flagged) > 0
        THEN [safe |-> FALSE, flaggedTopics |-> flagged,
              reason |-> Some(<<"Content flagged for: ">> \o flagged)]
        ELSE SafeResult

\* Buffer.byteLength(data, "base64"): three bytes for four characters, less
\* the padding.  A part's data is its character count and its count of "=".
Base64ByteLength(data) == ((data.chars * 3) \div 4) - data.padding

StructuralFailure(reason) ==
    [safe |-> FALSE, flaggedTopics |-> <<>>, reason |-> Some(<<reason>>)]

\* The violation of one content part, if any.
PartViolation(part, config) ==
    IF part.type = "text" /\ TextLength(part.text) > config.maxInputLength
    THEN Some(StructuralFailure("Input text exceeds maximum length"))
    ELSE IF part.type = "image" /\ ~config.allowImageInput
    THEN Some(StructuralFailure("Image input is not allowed by current safety configuration"))
    ELSE IF part.type = "file" /\ ~config.allowFileUpload
    THEN Some(StructuralFailure("File upload is not allowed by current safety configuration"))
    ELSE IF part.type = "file" /\ part.mimeType \notin SeqToSet(config.allowedFileMimeTypes)
    THEN Some(StructuralFailure("File type is not in the allowed list"))
    ELSE IF part.type = "file" /\ Base64ByteLength(part.data) > config.maxFileSizeBytes
    THEN Some(StructuralFailure("File size exceeds maximum"))
    ELSE None

RECURSIVE FirstSome(_)
\* The first defined value of a sequence of optional values.
FirstSome(opts) ==
    IF opts = <<>> THEN None
    ELSE IF IsSome(Head(opts)) THEN Head(opts) ELSE FirstSome(Tail(opts))

RECURSIVE AllParts(_)
\* Every content part of every message, in order.
AllParts(messages) ==
    IF messages = <<>> THEN <<>> ELSE Head(messages).content \o AllParts(Tail(messages))

\* A validation that looks at the user's messages only.
validateStructure_UserOnly(messages, config) ==
    LET IsUser(m) == m.role = "user"
        parts == AllParts(SelectSeq(messages, IsUser))
        first == FirstSome([k \in 1..Len(parts) |-> PartViolation(parts[k], config)])
    IN  IF IsSome(first) THEN first[1] ELSE SafeResult

validateStructure(messages, config) ==
    LET parts == AllParts(messages)
        first == FirstSome([k \in 1..Len(parts) |-> PartViolation(parts[k], config)])
    IN  IF IsSome(first) THEN first[1] ELSE SafeResult

UserMessages(messages) ==
    LET IsUser(m) == m.role = "user" IN SelectSeq(messages, IsUser)

\* An input check that scans the messages of every role.
checkInput_AllRoles(messages, config) ==
    LET structResult == validateStructure(messages, config)
        scans == [k \in 1..Len(messages) |->
                    scanText(extractText(messages[k].content), config.blockedTopics)]
        Unsafe(r) == ~r.safe
        unsafe == SelectSeq(scans, Unsafe)
    IN  IF ~structResult.safe THEN structResult
        ELSE IF unsafe # <<>> THEN unsafe[1]
        ELSE SafeResult

checkInput(messages, config) ==
    LET structResult == validateStructure(messages, config)
        userMessages == UserMessages(messages)
        scans == [k \in 1..Len(userMessages) |->
                    scanText(extractText(userMessages[k].content), config.blockedTopics)]
        Unsafe(r) == ~r.safe
        unsafe == SelectSeq(scans, Unsafe)
    IN  IF ~structResult.safe THEN structResult
        ELSE IF unsafe # <<>> THEN unsafe[1]
        ELSE SafeResult

checkOutput(message, config) ==
    scanText(extractText(message.content), config.blockedTopics)

(***************************************************************************)
(* safety/llm-safety-checker.ts: the semantic checker.                     *)
(*                                                                         *)
(* The judge's reply is a text whose tokens are the code fence, the word   *)
(* json, whitespace, prose, and JSON texts.  JsonValue is JSON.parse on    *)
(* one JSON text.                                                          *)
(***************************************************************************)
\* The markdown code fence: three backquotes.
Fence == "<fence>"

JsonSafe == "{\"safe\":true,\"flaggedTopics\":[],\"reason\":null}"

JsonUnsafe == "{\"safe\":false,\"flaggedTopics\":[\"violence\"],\"reason\":\"Threatening language\"}"

JsonUnsafeBare == "{\"safe\":false}"

JsonSafeAsString == "{\"safe\":\"false\",\"flaggedTopics\":\"violence\"}"

JsonNoSafe == "{\"verdict\":\"unsafe\"}"

JsonNull == "null"

JsonTexts == {JsonSafe, JsonUnsafe, JsonUnsafeBare, JsonSafeAsString, JsonNoSafe, JsonNull}

JsonValue(t) ==
    CASE t = JsonSafe ->
            [kind |-> "object",
             safe |-> Some([kind |-> "boolean", value |-> TRUE]),
             flaggedTopics |-> Some([kind |-> "array", items |-> <<>>]),
             reason |-> Some([kind |-> "null"])]
      [] t = JsonUnsafe ->
            [kind |-> "object",
             safe |-> Some([kind |-> "boolean", value |-> FALSE]),
             flaggedTopics |-> Some([kind |-> "array", items |-> <<"violence">>]),
             reason |-> Some([kind |-> "string", value |-> <<"Threatening language">>])]
      [] t = JsonUnsafeBare ->
            [kind |-> "object",
             safe |-> Some([kind |-> "boolean", value |-> FALSE]),
             flaggedTopics |-> None,
             reason |-> None]
      [] t = JsonSafeAsString ->
            [kind |-> "object",
             safe |-> Some([kind |-> "string", value |-> <<"false">>]),
             flaggedTopics |-> Some([kind |-> "string", value |-> <<"violence">>]),
             reason |-> None]
      [] t = JsonNoSafe ->
            [kind |-> "object", safe |-> None, flaggedTopics |-> None, reason |-> None]
      [] t = JsonNull -> [kind |-> "null"]

\* JSON.parse: whitespace around one JSON text is accepted; anything else
\* (no text at all, prose, a fence, text after the value) throws.
JsonParses(text) == Len(Trim(text)) = 1 /\ Trim(text)[1] \in JsonTexts

JsonParse(text) == JsonValue(Trim(text)[1])

\* replace(/^<fence>(?:json)?\s*/i, ""), on a text that starts with the fence.
StripOpeningFence(text) ==
    LET afterFence == Tail(text)
        afterWord == IF afterFence # <<>> /\ Lower(Head(afterFence)) = "json"
                     THEN Tail(afterFence) ELSE afterFence
    IN  TrimStart(afterWord)

\* replace(/\s*<fence>\s*$/, "")
StripClosingFence(text) ==
    LET t == TrimEnd(text)
    IN  IF t # <<>> /\ t[Len(t)] = Fence
        THEN TrimEnd(SubSeq(t, 1, Len(t) - 1))
        ELSE text

\* lines 190-196: the reply, trimmed and without its code fence.
CleanReply(raw) ==
    LET cleaned == Trim(raw)
    IN  IF cleaned # <<>> /\ Head(cleaned) = Fence
        THEN StripClosingFence(StripOpeningFence(cleaned))
        ELSE cleaned

\* lines 207-211: the verdict of the catch block.
VerdictOnParseFailure == [safe |-> TRUE, flaggedTopics |-> <<>>, reason |-> None]

\* lines 199-206: the verdict read off a parsed value that is not null.
VerdictOfParsed(parsed) ==
    LET HasKind(field, kind) == IsSome(field) /\ field[1].kind = kind
        safe == IF parsed.kind = "object" THEN parsed.safe ELSE None
        topics == IF parsed.kind = "object" THEN parsed.flaggedTopics ELSE None
        reason == IF parsed.kind = "object" THEN parsed.reason ELSE None
    IN  [safe |-> IF HasKind(safe, "boolean") THEN safe[1].value ELSE TRUE,
         flaggedTopics |-> IF HasKind(topics, "array") THEN topics[1].items ELSE <<>>,
         reason |-> IF HasKind(reason, "string") THEN Some(reason[1].value) ELSE None]

\* Reading a property of null throws inside the try block, as a failed
\* JSON.parse does.
parseVerdict(raw) ==
    LET cleaned == CleanReply(raw)
    IN  IF ~JsonParses(cleaned) THEN VerdictOnParseFailure
        ELSE IF JsonParse(cleaned).kind = "null" THEN VerdictOnParseFailure
        ELSE VerdictOfParsed(JsonParse(cleaned))

\* lines 228-235: checkWithLLM returns without calling the judge.
\* A classifier that is skipped only when it is disabled.
LLMCheckSkipped_DisabledOnly(content, safetyConfig) ==
    ~safetyConfig.llmSafety.enabled

LLMCheckSkipped(content, safetyConfig) ==
    ~safetyConfig.llmSafety.enabled \/ Trim(content) = <<>>

LLMSafeResult == [safe |-> TRUE, flaggedTopics |-> <<>>, reason |-> None, source |-> "llm"]

\* What the judge call ends in: it throws (no API key, network failure, a
\* non-2xx status, an unsupported provider), or it returns the reply text.
JudgeThrows == [kind |-> "throw"]

JudgeReplies(raw) == [kind |-> "reply", raw |-> raw]

\* lines 244-256: the result once the judge has replied.
LLMResultOfReply(raw) ==
    LET verdict == parseVerdict(raw)
    IN  IF ~verdict.safe
        THEN [safe |-> FALSE,
              flaggedTopics |-> verdict.flaggedTopics,
              reason |-> IF IsSome(verdict.reason) THEN verdict.reason
                         ELSE Some(<<"Content flagged by LLM safety evaluation">>),
              source |-> "llm"]
        ELSE LLMSafeResult

\* checkWithLLM as a whole: whether the judge was called, whether the call
\* threw, and the result when it did not.  outcome is what the judge call
\* ends in if it is made.
checkWithLLM(content, safetyConfig, outcome) ==
    IF LLMCheckSkipped(content, safetyConfig)
    THEN [called |-> FALSE, threw |-> FALSE, result |-> Some(LLMSafeResult)]
    ELSE IF outcome.kind = "throw"
    THEN [called |-> TRUE, threw |-> TRUE, result |-> None]
    ELSE [called |-> TRUE, threw |-> FALSE, result |-> Some(LLMResultOfReply(outcome.raw))]

(***************************************************************************)
(* The arguments mergeSafetyConfig is called with: Partial<SafetyConfig>.  *)
(***************************************************************************)
MaxOverrideFields == 3

MaxListLen == 2

SafetyConfigFields ==
    {"level", "blockedTopics", "maxInputLength", "maxOutputTokens",
     "allowImageInput", "allowFileUpload", "allowedFileMimeTypes",
     "maxFileSizeBytes", "systemPromptPrefix", "llmSafety"}

SeqsUpTo(S, n) == UNION {[1..k -> S] : k \in 0..n}

OverrideTopics == {"violence", "self_harm"}

\* "image/gif" and "text/html" are outside the default allow-list.
OverrideMimeTypes == {"text/plain", "image/gif"}

OverrideLimits(defaultLimit) == {0, 50, defaultLimit + 1}

OverridePrefixes == {<<>>, <<"Answer in French.">>}

OverrideLLMSafety ==
    {[enabled |-> Some(FALSE), model |-> None, customPrompt |-> None],
     [enabled |-> None, model |-> Some([provider |-> "claude", modelId |-> "claude-haiku"]),
      customPrompt |-> None]}

Opt(present, S) == IF present THEN {Some(v) : v \in S} ELSE {None}

\* The override objects whose defined properties are exactly those of F.
OverridesOn(F) ==
    [level                : Opt("level" \in F, {"strict", "moderate"}),
     blockedTopics        : Opt("blockedTopics" \in F, SeqsUpTo(OverrideTopics, MaxListLen)),
     maxInputLength       : Opt("maxInputLength" \in F, OverrideLimits(DefaultMaxInputLength)),
     maxOutputTokens      : Opt("maxOutputTokens" \in F, OverrideLimits(DefaultMaxOutputTokens)),
     allowImageInput      : Opt("allowImageInput" \in F, BOOLEAN),
     allowFileUpload      : Opt("allowFileUpload" \in F, BOOLEAN),
     allowedFileMimeTypes : Opt("allowedFileMimeTypes" \in F, SeqsUpTo(OverrideMimeTypes, MaxListLen)),
     maxFileSizeBytes     : Opt("maxFileSizeBytes" \in F, OverrideLimits(DefaultMaxFileSizeBytes)),
     systemPromptPrefix   : Opt("systemPromptPrefix" \in F, OverridePrefixes),
     llmSafety            : Opt("llmSafety" \in F, OverrideLLMSafety)]

OverrideObjects ==
    UNION {OverridesOn(F) :
             F \in {G \in SUBSET SafetyConfigFields : Cardinality(G) <= MaxOverrideFields}}

\* The optional argument: absent, or an override object.
OverrideArgs == {None} \cup {Some(o) : o \in OverrideObjects}

(***************************************************************************)
(* One call of mergeSafetyConfig.                                          *)
(***************************************************************************)
MergeIdle == [pc |-> "idle", overrides |-> None, result |-> None]

\* A merge that narrows the platform default's own MIME list in place.
MergeCall_InPlace ==
    /\ mg.pc = "call"
    /\ mg' = [mg EXCEPT !.pc = "returned",
                        !.result = Some(mergeSafetyConfig(mg.overrides))]
    /\ DEFAULT_SAFETY_CONFIG' =
          [DEFAULT_SAFETY_CONFIG EXCEPT !.allowedFileMimeTypes =
              mergeSafetyConfig(mg.overrides).allowedFileMimeTypes]
    /\ UNCHANGED <<rq, ck, other, cb, sc>>

\* Line 18-61: the call returns the merged configuration.
MergeCall ==
    /\ mg.pc = "call"
    /\ mg' = [mg EXCEPT !.pc = "returned",
                        !.result = Some(mergeSafetyConfig(mg.overrides))]
    /\ UNCHANGED <<DEFAULT_SAFETY_CONFIG, rq, ck, other, cb, sc>>

(***************************************************************************)
(* routes/chat.ts: POST /api/chat.  The handler runs in stages; rq.pc is   *)
(* the stage reached.  The judge calls and the provider call are awaited:  *)
(* the handler is suspended between the call and its outcome.              *)
(***************************************************************************)
RequestIdle ==
    [pc               |-> "idle",
     body             |-> None,     \* req.body
     safetyConfig     |-> None,     \* the merged configuration
     layersRun        |-> <<>>,
     keywordInputCheck  |-> None,   \* the result of checkInput
     inputJudge       |-> None,     \* what the judge call on the input ended in
     llmInputCheck    |-> None,     \* the result of checkWithLLM on the input
     providerResponse |-> None,     \* what the provider call ended in
     keywordOutputCheck |-> None,   \* the result of checkOutput
     outputJudge      |-> None,     \* what the judge call on the output ended in
     llmOutputCheck   |-> None,     \* the result of checkWithLLM on the output
     trace            |-> <<>>,     \* the checks and external calls made, in order
     response         |-> None]     \* what res.status(..).json(..) sent

TextPart(text) == [type |-> "text", text |-> text]

ImagePart == [type |-> "image", data |-> [chars |-> 8, padding |-> 1], mimeType |-> "image/png"]

HtmlFilePart ==
    [type |-> "file", data |-> [chars |-> 8, padding |-> 0], mimeType |-> "text/html",
     fileName |-> "page.html"]

Message(role, parts) == [role |-> role, content |-> parts]

SafeQuestion == <<"what", " ", "is", " ", "photosynthesis", "?">>

Threat == <<"Kill", " ", "yourself">>

\* 46 letters: with "i want to die " before it the text has 60 characters.
Filler46 == "abcdefghijabcdefghijabcdefghijabcdefghijabcdef"

\* 36 letters: with "i want to eat " before it the text has 50 characters.
Filler36 == "abcdefghijabcdefghijabcdefghijabcdef"

SixtyCharacters == <<"i", " ", "want", " ", "to", " ", "die", " ", Filler46>>

FiftyCharacters == <<"i", " ", "want", " ", "to", " ", "eat", " ", Filler36>>

\* The message lists of the requests.
RequestMessages ==
    {<<Message("user", <<TextPart(SixtyCharacters)>>)>>} \cup
    {<<Message("user", <<TextPart(SafeQuestion)>>)>>,
     <<Message("user", <<TextPart(Threat)>>)>>,
     <<Message("user", <<TextPart(<<"kill", " ", "yourself">>)>>)>>,
     <<Message("user", <<TextPart(<<"kill">>)>>)>>,
     <<Message("user", <<TextPart(<<"how", " ", "do", " ", "antibiotics", " ", "kill", " ",
                                    "bacteria", "?">>)>>)>>,
     <<Message("user", <<TextPart(<<"i", " ", "want">>), TextPart(<<"to", " ", "die">>)>>)>>,
     <<Message("system", <<TextPart(Threat)>>), Message("user", <<TextPart(SafeQuestion)>>)>>,
     <<Message("assistant", <<TextPart(<<"hello">>)>>)>>,
     <<Message("user", <<ImagePart>>)>>,
     <<Message("user", <<TextPart(<<LongWord>>)>>)>>,
     <<Message("user", <<HtmlFilePart>>)>>,
     <<Message("user", <<>>)>>,
     <<>>}

EmptyOverride ==
    [level |-> None, blockedTopics |-> None, maxInputLength |-> None,
     maxOutputTokens |-> None, allowImageInput |-> None, allowFileUpload |-> None,
     allowedFileMimeTypes |-> None, maxFileSizeBytes |-> None,
     systemPromptPrefix |-> None, llmSafety |-> None]

\* The safetyConfig property of the requests: absent, {}, and three overrides.
RequestOverrides ==
    {None,
     Some(EmptyOverride),
     Some([EmptyOverride EXCEPT !.maxInputLength = Some(50)]),
     Some([EmptyOverride EXCEPT !.maxInputLength = Some(0)]),
     Some([EmptyOverride EXCEPT !.llmSafety =
              Some([enabled |-> Some(FALSE), model |-> None, customPrompt |-> None])])}

RequestBodies ==
    [messages : RequestMessages,
     safetyConfig : RequestOverrides,
     model : {[provider |-> "claude", modelId |-> "claude-sonnet-4-20250514"]}]

\* middleware/validate: ChatRequestSchema.safeParse(body).success
ChatRequestSchemaAccepts(body) ==
    /\ Len(body.messages) >= 1
    /\ \A k \in 1..Len(body.messages) :
          /\ body.messages[k].role \in {"user", "assistant", "system"}
          /\ Len(body.messages[k].content) >= 1
          /\ \A n \in 1..Len(body.messages[k].content) :
                LET part == body.messages[k].content[n]
                IN  /\ part.type = "text" => TextLength(part.text) >= 1
                    /\ part.type = "image" =>
                          /\ part.data.chars >= 1
                          /\ part.mimeType \in {"image/png", "image/jpeg", "image/gif", "image/webp"}
                    /\ part.type = "file" => part.data.chars >= 1
    /\ body.model.provider \in {"claude", "gpt", "gemini"}
    /\ IsSome(body.safetyConfig) =>
          LET o == body.safetyConfig[1]
              Positive(n) == IsSome(n) => n[1] > 0
          IN  /\ Positive(o.maxInputLength)
              /\ Positive(o.maxOutputTokens)
              /\ Positive(o.maxFileSizeBytes)

\* What the judge call ends in.
JudgeReplyTexts ==
    {<<JsonSafe>>,
     <<JsonUnsafe>>,
     <<JsonUnsafeBare>>,
     <<Fence, "json", "\n", JsonUnsafe, "\n", Fence>>,
     <<Fence, "\n", JsonSafe, "\n", Fence, "\n">>,
     <<Fence, "JSON", " ", JsonUnsafe>>,
     <<"I cannot evaluate this content.">>,
     <<"Verdict:", " ", JsonUnsafe>>,
     <<>>,
     <<JsonNoSafe>>,
     <<JsonSafeAsString>>,
     <<JsonNull>>}

JudgeOutcomes == {JudgeThrows} \cup {JudgeReplies(raw) : raw \in JudgeReplyTexts}

\* What the provider call ends in: it throws, or it returns a message.
ProviderOutcomes ==
    {[kind |-> "throw", message |-> <<"API returned 500">>],
     [kind |-> "ok",
      message |-> Message("assistant", <<TextPart(<<"plants", " ", "make", " ", "food", " ",
                                                    "from", " ", "light", ".">>)>>),
      usage |-> Some([inputTokens |-> 12, outputTokens |-> 9])],
     [kind |-> "ok",
      message |-> Message("assistant", <<TextPart(<<"DAMN", " ", "this", " ", "homework">>)>>),
      usage |-> None],
     [kind |-> "ok",
      message |-> Message("assistant", <<TextPart(<<"that", " ", "is", " ", "torture">>)>>),
      usage |-> None],
     [kind |-> "ok",
      message |-> Message("assistant", <<TextPart(<<"just", " ", "skip", " ", "school">>)>>),
      usage |-> None],
     [kind |-> "ok",
      message |-> Message("assistant", <<TextPart(<<" ">>)>>),
      usage |-> None]}

FlaggedMessage == <<"Your message was flagged by our safety filters. Please rephrase.">>

SafetyCheckErrorMessage == <<"Unable to complete safety evaluation. Please try again.">>

RefusalText ==
    <<"I'm sorry, but I can't provide that information. Let me know if there's something else I can help you with for your studies!">>

VerificationFailedText ==
    <<"I'm sorry, I encountered an issue verifying my response. Please try again.">>

\* res.status(status).json({error: {code, message}}); return
Rejected(r, status, code, message) ==
    [r EXCEPT !.pc = "rejected",
              !.response = Some([kind |-> "error", status |-> status, code |-> code,
                                 message |-> message])]

\* A refusal that quotes the provider's text after the fixed message.
Refused_Echo(r, text, flaggedTopics, flaggedBy) ==
    [r EXCEPT !.pc = "refused",
              !.response =
                 Some([kind |-> "chat", status |-> 200,
                       message |-> Message("assistant",
                                      <<TextPart(text \o extractText(r.providerResponse[1].message.content))>>),
                       usage |-> None,
                       safetyMeta |-> [inputCheckPassed  |-> TRUE,
                                       outputCheckPassed |-> FALSE,
                                       flaggedTopics     |-> flaggedTopics,
                                       layersRun         |-> r.layersRun,
                                       flaggedBy         |-> Some(flaggedBy)]])]

\* A refusal whose metadata reports the output check as passed.
Refused_OutputPassed(r, text, flaggedTopics, flaggedBy) ==
    [r EXCEPT !.pc = "refused",
              !.response =
                 Some([kind |-> "chat", status |-> 200,
                       message |-> Message("assistant", <<TextPart(text)>>),
                       usage |-> None,
                       safetyMeta |-> [inputCheckPassed  |-> TRUE,
                                       outputCheckPassed |-> TRUE,
                                       flaggedTopics     |-> flaggedTopics,
                                       layersRun         |-> r.layersRun,
                                       flaggedBy         |-> Some(flaggedBy)]])]

\* res.status(200).json(response) with the fixed message text; return
Refused(r, text, flaggedTopics, flaggedBy) ==
    [r EXCEPT !.pc = "refused",
              !.response =
                 Some([kind |-> "chat", status |-> 200,
                       message |-> Message("assistant", <<TextPart(text)>>),
                       usage |-> None,
                       safetyMeta |-> [inputCheckPassed  |-> TRUE,
                                       outputCheckPassed |-> FALSE,
                                       flaggedTopics     |-> flaggedTopics,
                                       layersRun         |-> r.layersRun,
                                       flaggedBy         |-> Some(flaggedBy)]])]

\* `reason ?? "Your message was flagged ..."`
ReasonOrDefault(reason) == IF IsSome(reason) THEN reason[1] ELSE FlaggedMessage

UserText(messages) ==
    LET userMessages == UserMessages(messages)
    IN  JoinTexts([k \in 1..Len(userMessages) |-> extractText(userMessages[k].content)],
                  <<"\n">>)

\* lines 31-48
AfterValidate(r) ==
    IF ~ChatRequestSchemaAccepts(r.body[1])
    THEN Rejected(r, 400, "INVALID_REQUEST", <<"schema violation">>)
    ELSE [r EXCEPT !.pc = "validated"]

\* A handler that lists the semantic layer first.
AfterMerge_LLMFirst(r) ==
    LET safetyConfig == mergeSafetyConfig(r.body[1].safetyConfig)
    IN  IF "llmSafety" \notin DOMAIN safetyConfig
        THEN [r EXCEPT !.pc = "crashed", !.safetyConfig = Some(safetyConfig),
                       !.layersRun = <<"keyword">>]
        ELSE [r EXCEPT !.pc = "configMerged", !.safetyConfig = Some(safetyConfig),
                       !.layersRun = IF safetyConfig.llmSafety.enabled
                                     THEN <<"llm", "keyword">> ELSE <<"keyword">>]

\* A handler that goes from the merge straight to the semantic layer.
AfterMerge_SkipKeyword(r) ==
    LET safetyConfig == mergeSafetyConfig(r.body[1].safetyConfig)
    IN  IF "llmSafety" \notin DOMAIN safetyConfig
        THEN [r EXCEPT !.pc = "crashed", !.safetyConfig = Some(safetyConfig),
                       !.layersRun = <<"keyword">>]
        ELSE [r EXCEPT !.pc = "inputKeywordChecked", !.safetyConfig = Some(safetyConfig),
                       !.layersRun = IF safetyConfig.llmSafety.enabled
                                     THEN <<"keyword", "llm">> ELSE <<"keyword">>]

\* lines 50-57.  Reading .enabled of a missing llmSafety throws a TypeError
\* that nothing catches: the handler ends without sending a response.
AfterMerge(r) ==
    LET safetyConfig == mergeSafetyConfig(r.body[1].safetyConfig)
    IN  IF "llmSafety" \notin DOMAIN safetyConfig
        THEN [r EXCEPT !.pc = "crashed", !.safetyConfig = Some(safetyConfig),
                       !.layersRun = <<"keyword">>]
        ELSE [r EXCEPT !.pc = "configMerged", !.safetyConfig = Some(safetyConfig),
                       !.layersRun = IF safetyConfig.llmSafety.enabled
                                     THEN <<"keyword", "llm">> ELSE <<"keyword">>]

\* A handler that runs the input keyword check and goes on whatever it found.
AfterInputKeywordCheck_Continue(r) ==
    LET keywordInputCheck == checkInput(r.body[1].messages, r.safetyConfig[1])
    IN  [r EXCEPT !.pc = "inputKeywordChecked",
                  !.trace = Append(r.trace, "keyword:input"),
                  !.keywordInputCheck = Some(keywordInputCheck)]

\* lines 59-72
AfterInputKeywordCheck(r) ==
    LET keywordInputCheck == checkInput(r.body[1].messages, r.safetyConfig[1])
        checked == [r EXCEPT !.trace = Append(r.trace, "keyword:input"),
                             !.keywordInputCheck = Some(keywordInputCheck)]
    IN  IF ~keywordInputCheck.safe
        THEN Rejected(checked, 422, "INPUT_SAFETY_VIOLATION",
                      ReasonOrDefault(keywordInputCheck.reason))
        ELSE [checked EXCEPT !.pc = "inputKeywordChecked"]

\* lines 75-82, up to the await of the judge call.
AfterInputLLMCheckStart(r) ==
    IF ~r.safetyConfig[1].llmSafety.enabled
    THEN [r EXCEPT !.pc = "inputSemanticChecked"]
    ELSE IF LLMCheckSkipped(UserText(r.body[1].messages), r.safetyConfig[1])
    THEN [r EXCEPT !.pc = "inputSemanticChecked", !.llmInputCheck = Some(LLMSafeResult)]
    ELSE [r EXCEPT !.pc = "awaitInputJudge", !.trace = Append(r.trace, "judge:input")]

\* A handler whose catch block lets the request through.
AfterInputLLMCheckEnd_FailOpen(r, outcome) ==
    LET check == checkWithLLM(UserText(r.body[1].messages), r.safetyConfig[1], outcome)
        judged == [r EXCEPT !.inputJudge = Some(outcome), !.llmInputCheck = check.result]
    IN  IF check.threw
        THEN [judged EXCEPT !.pc = "inputSemanticChecked"]
        ELSE IF ~check.result[1].safe
        THEN Rejected(judged, 422, "INPUT_SAFETY_VIOLATION",
                      ReasonOrDefault(check.result[1].reason))
        ELSE [judged EXCEPT !.pc = "inputSemanticChecked"]

\* A handler that goes on to the provider on an unsafe verdict for the input.
AfterInputLLMCheckEnd_IgnoreVerdict(r, outcome) ==
    LET check == checkWithLLM(UserText(r.body[1].messages), r.safetyConfig[1], outcome)
        judged == [r EXCEPT !.inputJudge = Some(outcome), !.llmInputCheck = check.result]
    IN  IF check.threw
        THEN Rejected(judged, 503, "SAFETY_CHECK_ERROR", SafetyCheckErrorMessage)
        ELSE [judged EXCEPT !.pc = "inputSemanticChecked"]

\* lines 82-106, from the outcome of the judge call.
AfterInputLLMCheckEnd(r, outcome) ==
    LET check == checkWithLLM(UserText(r.body[1].messages), r.safetyConfig[1], outcome)
        judged == [r EXCEPT !.inputJudge = Some(outcome), !.llmInputCheck = check.result]
    IN  IF check.threw
        THEN Rejected(judged, 503, "SAFETY_CHECK_ERROR", SafetyCheckErrorMessage)
        ELSE IF ~check.result[1].safe
        THEN Rejected(judged, 422, "INPUT_SAFETY_VIOLATION",
                      ReasonOrDefault(check.result[1].reason))
        ELSE [judged EXCEPT !.pc = "inputSemanticChecked"]

\* lines 109-119, up to the await of provider.chat.
AfterProviderCall(r) ==
    [r EXCEPT !.pc = "awaitProvider", !.trace = Append(r.trace, "provider")]

\* A handler that calls the provider again when the call has failed.
AfterProviderReturn_Retry(r, outcome) ==
    LET returned == [r EXCEPT !.providerResponse = Some(outcome)]
    IN  IF outcome.kind = "throw"
        THEN [returned EXCEPT !.pc = "inputSemanticChecked"]
        ELSE [returned EXCEPT !.pc = "modelInvoked"]

\* A handler that answers a provider failure with a refusal message.
AfterProviderReturn_Swallow(r, outcome) ==
    LET returned == [r EXCEPT !.providerResponse = Some(outcome)]
    IN  IF outcome.kind = "throw"
        THEN Refused(returned, RefusalText, <<>>, "keyword")
        ELSE [returned EXCEPT !.pc = "modelInvoked"]

\* lines 113-131, from the outcome of provider.chat.
AfterProviderReturn(r, outcome) ==
    LET returned == [r EXCEPT !.providerResponse = Some(outcome)]
    IN  IF outcome.kind = "throw"
        THEN Rejected(returned, 502, "PROVIDER_ERROR", outcome.message)
        ELSE [returned EXCEPT !.pc = "modelInvoked"]

\* A handler that refuses a flagged output without reporting its topics.
AfterOutputKeywordCheck_NoTopics(r) ==
    LET keywordOutputCheck == checkOutput(r.providerResponse[1].message, r.safetyConfig[1])
        checked == [r EXCEPT !.trace = Append(r.trace, "keyword:output"),
                             !.keywordOutputCheck = Some(keywordOutputCheck)]
    IN  IF ~keywordOutputCheck.safe
        THEN Refused(checked, RefusalText, <<>>, "keyword")
        ELSE [checked EXCEPT !.pc = "outputKeywordChecked"]

\* lines 133-158
AfterOutputKeywordCheck(r) ==
    LET keywordOutputCheck == checkOutput(r.providerResponse[1].message, r.safetyConfig[1])
        checked == [r EXCEPT !.trace = Append(r.trace, "keyword:output"),
                             !.keywordOutputCheck = Some(keywordOutputCheck)]
    IN  IF ~keywordOutputCheck.safe
        THEN Refused(checked, RefusalText, keywordOutputCheck.flaggedTopics, "keyword")
        ELSE [checked EXCEPT !.pc = "outputKeywordChecked"]

OutputText(r) == extractText(r.providerResponse[1].message.content)

\* lines 160-165, up to the await of the judge call.
AfterOutputLLMCheckStart(r) ==
    IF ~r.safetyConfig[1].llmSafety.enabled
    THEN [r EXCEPT !.pc = "outputSemanticChecked"]
    ELSE IF LLMCheckSkipped(OutputText(r), r.safetyConfig[1])
    THEN [r EXCEPT !.pc = "outputSemanticChecked", !.llmOutputCheck = Some(LLMSafeResult)]
    ELSE [r EXCEPT !.pc = "awaitOutputJudge", !.trace = Append(r.trace, "judge:output")]

\* A handler that answers a failed judge call on the output with an error.
AfterOutputLLMCheckEnd_Reject(r, outcome) ==
    LET check == checkWithLLM(OutputText(r), r.safetyConfig[1], outcome)
        judged == [r EXCEPT !.outputJudge = Some(outcome), !.llmOutputCheck = check.result]
    IN  IF check.threw
        THEN Rejected(judged, 503, "SAFETY_CHECK_ERROR", SafetyCheckErrorMessage)
        ELSE IF ~check.result[1].safe
        THEN Refused(judged, RefusalText, check.result[1].flaggedTopics, "llm")
        ELSE [judged EXCEPT !.pc = "outputSemanticChecked"]

\* lines 165-215, from the outcome of the judge call.
AfterOutputLLMCheckEnd(r, outcome) ==
    LET check == checkWithLLM(OutputText(r), r.safetyConfig[1], outcome)
        judged == [r EXCEPT !.outputJudge = Some(outcome), !.llmOutputCheck = check.result]
    IN  IF check.threw
        THEN Refused(judged, VerificationFailedText, <<>>, "llm")
        ELSE IF ~check.result[1].safe
        THEN Refused(judged, RefusalText, check.result[1].flaggedTopics, "llm")
        ELSE [judged EXCEPT !.pc = "outputSemanticChecked"]

\* A clean response that leaves the usage counters out.
AfterRespond_NoUsage(r) ==
    [r EXCEPT !.pc = "completed",
              !.response =
                 Some([kind |-> "chat", status |-> 200,
                       message |-> r.providerResponse[1].message,
                       usage |-> None,
                       safetyMeta |-> [inputCheckPassed  |-> TRUE,
                                       outputCheckPassed |-> TRUE,
                                       flaggedTopics     |-> <<>>,
                                       layersRun         |-> r.layersRun,
                                       flaggedBy         |-> None]])]

\* lines 217-231
AfterRespond(r) ==
    [r EXCEPT !.pc = "completed",
              !.response =
                 Some([kind |-> "chat", status |-> 200,
                       message |-> r.providerResponse[1].message,
                       usage |-> r.providerResponse[1].usage,
                       safetyMeta |-> [inputCheckPassed  |-> TRUE,
                                       outputCheckPassed |-> TRUE,
                                       flaggedTopics     |-> <<>>,
                                       layersRun         |-> r.layersRun,
                                       flaggedBy         |-> None]])]

(***************************************************************************)
(* The Chatbot orchestrator (chatbot.ts) and its SafetyChecker             *)
(* (safety/safety-checker.ts).  A provider is known by its ModelId; the    *)
(* calls of provider.chat are recorded in the order they are made, each    *)
(* with the provider called and the messages passed.                       *)
(***************************************************************************)
\* types/index.ts, lines 5-9.
MODEL_IDS == {"claude", "gpt", "gemini"}

\* JavaScript truthiness of a property read off a parsed JSON object, or of
\* a property that is undefined (None).
Truthy(v) ==
    /\ IsSome(v)
    /\ CASE v[1].kind = "boolean" -> v[1].value
         [] v[1].kind = "string"  -> v[1].value # <<>>
         [] v[1].kind = "null"    -> FALSE
         [] OTHER                 -> TRUE

JsTrue == Some([kind |-> "boolean", value |-> TRUE])

JsFalse == Some([kind |-> "boolean", value |-> FALSE])

\* chatbot.ts, lines 13-16.  A property that is absent reads as undefined.
SAFE_PASS == [safe |-> JsTrue, reason |-> None, checkedBy |-> "gpt"]

\* part_004 (safety/prompts.ts): the built-in safety prompt.
DEFAULT_SAFETY_PROMPT ==
    <<"You are a content safety classifier for an educational platform used by middle school students">>

\* new SafetyChecker(providers, config): lines 41-50.
SafetyCheckerConfig(config) ==
    [model  |-> IF IsSome(config) /\ IsSome(config[1].model) THEN config[1].model[1] ELSE "gpt",
     prompt |-> IF IsSome(config) /\ IsSome(config[1].prompt) THEN config[1].prompt[1]
                ELSE DEFAULT_SAFETY_PROMPT]

\* contentToPlainText, lines 16-29: one text per block, joined by "\n".
BlockText(block) ==
    CASE block.type = "text"  -> block.text
      [] block.type = "image" -> <<"[Image: ", block.mimeType, "]">>
      [] block.type = "file"  -> <<"[File: ", block.fileName, " (", block.mimeType, ")]">>

contentToPlainText(content) ==
    JoinTexts([k \in 1..Len(content) |-> BlockText(content[k])], <<"\n">>)

\* lines 62-63: overrides?.model ?? this.config.model, and the same for the
\* prompt.  overrides is an optional object of optional properties.
CheckModelId(config, overrides) ==
    IF IsSome(overrides) /\ IsSome(overrides[1].model) THEN overrides[1].model[1]
    ELSE config.model

CheckPrompt(config, overrides) ==
    IF IsSome(overrides) /\ IsSome(overrides[1].prompt) THEN overrides[1].prompt[1]
    ELSE config.prompt

\* lines 74-88: the two messages sent to the safety model.
SafetyMessages(prompt, content) ==
    <<Message("system", <<TextPart(prompt)>>),
      Message("user",
              <<TextPart(<<"Evaluate the following content for safety:", "\n", "\n">>
                         \o contentToPlainText(content))>>)>>

\* lines 66-70: the error thrown for a model that has no provider.
NotRegisteredError(modelId) ==
    [name |-> "Error",
     message |-> <<"Safety check model \"", modelId, "\" is not registered as a provider">>]

\* SafetyChecker.check up to its await, lines 62-90: it throws, or it calls
\* the chat method of the safety model's provider.
CheckBegin(providers, config, content, overrides) ==
    LET modelId == CheckModelId(config, overrides)
    IN  IF modelId \notin providers
        THEN [kind |-> "throw", error |-> NotRegisteredError(modelId)]
        ELSE [kind |-> "call", provider |-> modelId,
              messages |-> SafetyMessages(CheckPrompt(config, overrides), content)]

\* A JSON text that is not JSON, and the texts that hold an opening and a
\* closing brace.
BrokenJson == "{safe: yes}"

BraceTexts == (JsonTexts \ {JsonNull}) \cup {BrokenJson}

UnparseableResult(checkedBy) ==
    [safe |-> JsFalse,
     reason |-> Some([kind |-> "string",
                      value |-> <<"Safety model returned unparseable response - failing closed">>]),
     checkedBy |-> checkedBy]

\* text.match(/\{[\s\S]*\}/): from the first opening brace to the last
\* closing brace, None when there is no such pair.
MatchBraces(text) ==
    LET braces == {i \in 1..Len(text) : text[i] \in BraceTexts}
        first  == CHOOSE i \in braces : \A j \in braces : i <= j
        last   == CHOOSE i \in braces : \A j \in braces : j <= i
    IN  IF braces = {} THEN None ELSE Some(SubSeq(text, first, last))

\* A result that takes every response without braces for a safe verdict.
parseResponse_FailOpen(response, checkedBy) ==
    LET text == JoinTexts(TextsOf(response.content), <<>>)
        jsonMatch == MatchBraces(text)
    IN  IF ~IsSome(jsonMatch) THEN [safe |-> JsTrue, reason |-> None, checkedBy |-> checkedBy]
        ELSE IF ~(Len(jsonMatch[1]) = 1 /\ jsonMatch[1][1] \in JsonTexts)
        THEN UnparseableResult(checkedBy)
        ELSE [safe |-> JsonValue(jsonMatch[1][1]).safe,
              reason |-> JsonValue(jsonMatch[1][1]).reason,
              checkedBy |-> checkedBy]

\* parseResponse, lines 100-135.  The matched text starts with an opening
\* brace, so JSON.parse returns an object or throws; two JSON texts, or a
\* JSON text and more braces after it, do not parse.
parseResponse(response, checkedBy) ==
    LET text == JoinTexts(TextsOf(response.content), <<>>)
        jsonMatch == MatchBraces(text)
    IN  IF ~IsSome(jsonMatch) THEN UnparseableResult(checkedBy)
        ELSE IF ~(Len(jsonMatch[1]) = 1 /\ jsonMatch[1][1] \in JsonTexts)
        THEN UnparseableResult(checkedBy)
        ELSE [safe |-> JsonValue(jsonMatch[1][1]).safe,
              reason |-> JsonValue(jsonMatch[1][1]).reason,
              checkedBy |-> checkedBy]

\* What a call of provider.chat ends in: the promise rejects with an error,
\* or it resolves with the assistant's message.
ChatThrows(error) == [kind |-> "throw", error |-> error]

ChatReplies(message) == [kind |-> "reply", message |-> message]

ProviderError(provider) ==
    [name |-> "ProviderError", provider |-> provider,
     message |-> <<"[", provider, "] ", "request failed">>]

NetworkError == [name |-> "TypeError", message |-> <<"fetch failed">>]

\* SafetyChecker.check from the end of its await, lines 90-92.
CheckEnd(modelId, outcome) ==
    IF outcome.kind = "throw" THEN [kind |-> "throw", error |-> outcome.error]
    ELSE [kind |-> "result", result |-> parseResponse(outcome.message, modelId)]

\* One call of Chatbot.chat before it starts.  index.ts (part_000) registers
\* the three providers.  calls are the calls of provider.chat made so far and
\* outcomes what the calls that have ended ended in, both in order.
ChatIdle ==
    [pc |-> "idle", providers |-> MODEL_IDS, request |-> None, calls |-> <<>>,
     outcomes |-> <<>>, inputCheck |-> None, assistantMessage |-> None, outputCheck |-> None,
     result |-> None, error |-> None]

\* chatbot.ts, line 33: the checker of a Chatbot has the default config.
ChatbotCheckerConfig == SafetyCheckerConfig(None)

\* chatbot.ts, line 39.
UnknownModelError(model) == [name |-> "Error", message |-> <<"Unknown model: ", model>>]

\* types/index.ts, lines 113-123.
SafetyViolationError(result, phase) ==
    [name |-> "SafetyViolationError", result |-> result, phase |-> phase,
     message |-> <<"Safety violation (", phase, "): ">>
                 \o (IF IsSome(result.reason) /\ result.reason[1].kind = "string"
                     THEN result.reason[1].value ELSE <<"content flagged">>)]

\* The promise of chat rejects with error.
ChatThrown(c, error) == [c EXCEPT !.pc = "thrown", !.error = Some(error)]

\* A call of chat on the provider modelId is made and awaited at pc.
ChatCalls(c, pc, modelId, messages) ==
    [c EXCEPT !.pc = pc,
              !.calls = Append(@, [provider |-> modelId, messages |-> messages])]

\* line 67: provider.chat(request.messages).
ForwardCall(c) == ChatCalls(c, "awaitProvider", c.request[1].model, c.request[1].messages)

\* lines 53-56 and 75-78: the overrides passed to the checker.
ChatOverrides(request) ==
    Some([model |-> request.safetyModel, prompt |-> request.safetyPrompt])

\* [...messages].reverse().find(m => m.role === "user"), lines 48-50.
FirstUserMessage(messages) ==
    LET users == SelectSeq(messages, LAMBDA m : m.role = "user")
    IN  IF users = <<>> THEN None ELSE Some(users[1])

LastUserMessage(messages) ==
    LET users == SelectSeq(messages, LAMBDA m : m.role = "user")
    IN  IF users = <<>> THEN None ELSE Some(users[Len(users)])

\* request.skipSafety, an optional boolean, read as a condition.
SkipSafety(request) == IsSome(request.skipSafety) /\ request.skipSafety[1]

\* lines 85-91: the response.  uuid() is a fresh identifier.
ChatReturned(c) ==
    [c EXCEPT !.pc = "returned",
              !.result = Some([id |-> "<uuid>",
                               model |-> c.request[1].model,
                               message |-> c.assistantMessage[1],
                               safety |-> [inputCheck |-> c.inputCheck[1],
                                           outputCheck |-> c.outputCheck[1]]])]

\* The input check of chat, lines 45-59, for a request whose safety layer is
\* on: the checker is called on the last user message, if there is one.
InputCheckBegin(c) ==
    LET request == c.request[1]
        lastUserMsg == LastUserMessage(request.messages)
        begin == CheckBegin(c.providers, ChatbotCheckerConfig, lastUserMsg[1].content,
                            ChatOverrides(request))
    IN  IF ~IsSome(lastUserMsg) THEN ForwardCall([c EXCEPT !.inputCheck = Some(SAFE_PASS)])
        ELSE IF begin.kind = "throw" THEN ChatThrown(c, begin.error)
        ELSE ChatCalls(c, "awaitInputCheck", begin.provider, begin.messages)

\* A chat that looks the target provider up only when it forwards.
ChatBegin_NoLookup(c, request) ==
    LET r == [c EXCEPT !.request = Some(request)]
    IN  IF SkipSafety(request) THEN ForwardCall([r EXCEPT !.inputCheck = Some(SAFE_PASS)])
        ELSE InputCheckBegin(r)

\* A chat that runs the input check whatever skipSafety says.
ChatBegin_IgnoreSkip(c, request) ==
    LET r == [c EXCEPT !.request = Some(request)]
    IN  IF request.model \notin c.providers
        THEN ChatThrown(r, UnknownModelError(request.model))
        ELSE InputCheckBegin(r)

\* chat up to its first await or throw, lines 36-67.
ChatBegin(c, request) ==
    LET r == [c EXCEPT !.request = Some(request)]
    IN  IF request.model \notin c.providers
        THEN ChatThrown(r, UnknownModelError(request.model))
        ELSE IF SkipSafety(request)
        THEN ForwardCall([r EXCEPT !.inputCheck = Some(SAFE_PASS)])
        ELSE InputCheckBegin(r)

\* A chat that forwards the conversation whatever the input verdict.
AfterInputCheck_ForwardAnyway(c, outcome) ==
    LET request == c.request[1]
        end == CheckEnd(CheckModelId(ChatbotCheckerConfig, ChatOverrides(request)), outcome)
    IN  IF end.kind = "throw" THEN ChatThrown(c, end.error)
        ELSE ForwardCall([c EXCEPT !.inputCheck = Some(end.result)])

\* A chat that takes a failed input check for a pass.
AfterInputCheck_SwallowError(c, outcome) ==
    LET request == c.request[1]
        end == CheckEnd(CheckModelId(ChatbotCheckerConfig, ChatOverrides(request)), outcome)
    IN  IF end.kind = "throw" THEN ForwardCall([c EXCEPT !.inputCheck = Some(SAFE_PASS)])
        ELSE IF ~Truthy(end.result.safe)
        THEN ChatThrown([c EXCEPT !.inputCheck = Some(end.result)],
                        SafetyViolationError(end.result, "input"))
        ELSE ForwardCall([c EXCEPT !.inputCheck = Some(end.result)])

\* chat from the end of the input check's await to the next await or throw,
\* lines 53-67.
AfterInputCheck(c, outcome) ==
    LET request == c.request[1]
        end == CheckEnd(CheckModelId(ChatbotCheckerConfig, ChatOverrides(request)), outcome)
    IN  IF end.kind = "throw" THEN ChatThrown(c, end.error)
        ELSE IF ~Truthy(end.result.safe)
        THEN ChatThrown([c EXCEPT !.inputCheck = Some(end.result)],
                        SafetyViolationError(end.result, "input"))
        ELSE ForwardCall([c EXCEPT !.inputCheck = Some(end.result)])

\* chat from the end of provider.chat's await to the next await, the return
\* or a throw, lines 67-78.
AfterForward(c, outcome) ==
    LET request == c.request[1]
        r == [c EXCEPT !.assistantMessage = Some(outcome.message)]
        begin == CheckBegin(c.providers, ChatbotCheckerConfig, outcome.message.content,
                            ChatOverrides(request))
    IN  IF outcome.kind = "throw" THEN ChatThrown(c, outcome.error)
        ELSE IF SkipSafety(request)
        THEN ChatReturned([r EXCEPT !.outputCheck = Some(SAFE_PASS)])
        ELSE IF begin.kind = "throw" THEN ChatThrown(r, begin.error)
        ELSE ChatCalls(r, "awaitOutputCheck", begin.provider, begin.messages)

\* A chat that returns the model's message whatever the output verdict.
AfterOutputCheck_ReturnAnyway(c, outcome) ==
    LET request == c.request[1]
        end == CheckEnd(CheckModelId(ChatbotCheckerConfig, ChatOverrides(request)), outcome)
    IN  IF end.kind = "throw" THEN ChatThrown(c, end.error)
        ELSE ChatReturned([c EXCEPT !.outputCheck = Some(end.result)])

\* chat from the end of the output check's await, lines 75-91.
AfterOutputCheck(c, outcome) ==
    LET request == c.request[1]
        end == CheckEnd(CheckModelId(ChatbotCheckerConfig, ChatOverrides(request)), outcome)
    IN  IF end.kind = "throw" THEN ChatThrown(c, end.error)
        ELSE IF ~Truthy(end.result.safe)
        THEN ChatThrown([c EXCEPT !.outputCheck = Some(end.result)],
                        SafetyViolationError(end.result, "output"))
        ELSE ChatReturned([c EXCEPT !.outputCheck = Some(end.result)])

\* One direct call of SafetyChecker.check before it starts.
SafetyCheckIdle ==
    [pc |-> "idle", providers |-> MODEL_IDS, config |-> SafetyCheckerConfig(None),
     content |-> <<>>, overrides |-> None, calls |-> <<>>, reply |-> None,
     result |-> None, error |-> None]

(***************************************************************************)
(* Direct calls of the exported checks: checkInput, checkOutput and        *)
(* checkWithLLM, each applied to its arguments once.                       *)
(***************************************************************************)
CheckIdle == [pc |-> "idle", fn |-> "none", args |-> <<>>, outcome |-> None, result |-> None]

TextFilePart ==
    [type |-> "file", data |-> [chars |-> 8, padding |-> 0], mimeType |-> "text/plain",
     fileName |-> "notes.txt"]

\* The message lists checkInput is called with.
FilterMessages ==
    {<<Message("user", <<TextPart(SafeQuestion)>>)>>,
     <<Message("user", <<TextPart(SixtyCharacters)>>)>>,
     <<Message("user", <<TextPart(FiftyCharacters)>>)>>,
     <<Message("user", <<TextPart(<<"kill", " ", "yourself">>)>>),
       Message("user", <<TextPart(<<"i", " ", "want", " ", "to", " ", "die">>)>>)>>,
     <<Message("user", <<TextPart(<<"kill", " ", "yourself", " ", "damn">>)>>)>>,
     <<Message("system", <<TextPart(Threat)>>), Message("user", <<TextPart(SafeQuestion)>>)>>,
     <<Message("assistant", <<TextPart(<<"i", " ", "want", " ", "to", " ", "die">>)>>),
       Message("user", <<TextPart(SafeQuestion)>>)>>,
     <<Message("user", <<TextPart(SafeQuestion)>>), Message("assistant", <<TextPart(<<LongWord>>)>>)>>,
     <<Message("user", <<TextPart(SafeQuestion)>>), Message("assistant", <<ImagePart>>)>>,
     <<Message("user", <<ImagePart>>)>>,
     <<Message("user", <<HtmlFilePart>>)>>,
     <<Message("user", <<TextFilePart>>)>>,
     <<Message("system", <<TextFilePart>>), Message("user", <<TextPart(SafeQuestion)>>)>>,
     <<Message("user", <<TextPart(<<"i", " ", "want">>)>>),
       Message("user", <<TextPart(<<"to", " ", "die">>)>>)>>,
     <<Message("user", <<TextPart(<<"i", " ", "want">>), TextPart(<<"to", " ", "die">>)>>)>>}

\* The overrides the configurations of the direct calls are merged from.
FilterOverrides ==
    {None,
     Some([EmptyOverride EXCEPT !.maxInputLength = Some(50)]),
     Some([EmptyOverride EXCEPT !.allowImageInput = Some(FALSE)]),
     Some([EmptyOverride EXCEPT !.allowFileUpload = Some(FALSE)]),
     Some([EmptyOverride EXCEPT !.allowedFileMimeTypes = Some(<<"text/plain">>)]),
     Some([EmptyOverride EXCEPT !.maxFileSizeBytes = Some(5)])}

\* The configurations checkInput and checkOutput are called with: merged
\* ones, and one built by the caller with a single active topic.
FilterConfigs ==
    {mergeSafetyConfig(o) : o \in FilterOverrides} \cup
    {[DEFAULT_SAFETY_CONFIG EXCEPT !.blockedTopics = <<"self_harm">>]}

\* The messages checkOutput is called with.
FilterOutputs ==
    {Message("assistant", <<TextPart(<<"plants", " ", "make", " ", "food", ".">>)>>),
     Message("assistant", <<TextPart(<<"DAMN", " ", "this", " ", "homework">>)>>),
     Message("assistant", <<TextPart(<<"kill", " ", "yourself", " ", "damn">>)>>),
     Message("assistant", <<TextPart(<<"i", " ", "want">>), TextPart(<<"to", " ", "die">>)>>),
     Message("assistant", <<TextPart(<<"kill">>)>>)}

\* The texts checkWithLLM is called with.
ClassifierTexts ==
    {SafeQuestion, <<>>, <<" ">>, <<"\n", " ", "\n">>, <<" ", "hello", " ">>}

\* The configurations checkWithLLM is called with: the semantic layer
\* enabled (the default) and disabled.
ClassifierConfigs ==
    {DEFAULT_SAFETY_CONFIG,
     [DEFAULT_SAFETY_CONFIG EXCEPT !.llmSafety.enabled = FALSE]}

CheckCalls ==
    {[pc |-> "call", fn |-> "checkInput", args |-> [messages |-> m, config |-> c],
      outcome |-> None, result |-> None] : m \in FilterMessages, c \in FilterConfigs}
    \cup
    {[pc |-> "call", fn |-> "checkOutput", args |-> [message |-> m, config |-> c],
      outcome |-> None, result |-> None] : m \in FilterOutputs, c \in FilterConfigs}
    \cup
    {[pc |-> "call", fn |-> "checkWithLLM", args |-> [content |-> t, safetyConfig |-> c],
      outcome |-> None, result |-> None] : t \in ClassifierTexts, c \in ClassifierConfigs}

\* safety-filter.ts lines 172-189
CheckInputCall ==
    /\ ck.pc = "call" /\ ck.fn = "checkInput"
    /\ ck' = [ck EXCEPT !.pc = "returned",
                        !.result = Some(checkInput(ck.args.messages, ck.args.config))]
    /\ UNCHANGED <<DEFAULT_SAFETY_CONFIG, mg, rq, other, cb, sc>>

\* safety-filter.ts lines 194-200
CheckOutputCall ==
    /\ ck.pc = "call" /\ ck.fn = "checkOutput"
    /\ ck' = [ck EXCEPT !.pc = "returned",
                        !.result = Some(checkOutput(ck.args.message, ck.args.config))]
    /\ UNCHANGED <<DEFAULT_SAFETY_CONFIG, mg, rq, other, cb, sc>>

\* llm-safety-checker.ts lines 222-257; outcome is what the judge call ends
\* in if the function makes it.
CheckWithLLMCall ==
    /\ ck.pc = "call" /\ ck.fn = "checkWithLLM"
    /\ \E outcome \in JudgeOutcomes :
          ck' = [ck EXCEPT !.pc = "returned",
                           !.outcome = Some(outcome),
                           !.result = Some(checkWithLLM(ck.args.content, ck.args.safetyConfig,
                                                        outcome))]
    /\ UNCHANGED <<DEFAULT_SAFETY_CONFIG, mg, rq, other, cb, sc>>

\* lines 113-231 in one piece: the handler from the outcome of provider.chat
\* to its response, given what the judge call on the output ends in if made.
AfterProviderToResponse(r, providerOutcome, judgeOutcome) ==
    LET returned == AfterProviderReturn(r, providerOutcome)
        scanned  == AfterOutputKeywordCheck(returned)
        started  == AfterOutputLLMCheckStart(scanned)
        judged   == AfterOutputLLMCheckEnd(started, judgeOutcome)
    IN  IF returned.pc # "modelInvoked" THEN returned
        ELSE IF scanned.pc # "outputKeywordChecked" THEN scanned
        ELSE IF started.pc = "outputSemanticChecked" THEN AfterRespond(started)
        ELSE IF judged.pc = "outputSemanticChecked" THEN AfterRespond(judged)
        ELSE judged

ReceiveRequest ==
    /\ rq.pc = "idle"
    /\ \E body \in RequestBodies : rq' = [rq EXCEPT !.pc = "received", !.body = Some(body)]
    /\ UNCHANGED <<DEFAULT_SAFETY_CONFIG, mg, ck, other, cb, sc>>

ValidateRequest ==
    /\ rq.pc = "received"
    /\ rq' = AfterValidate(rq)
    /\ UNCHANGED <<DEFAULT_SAFETY_CONFIG, mg, ck, other, cb, sc>>

MergeConfig ==
    /\ rq.pc = "validated"
    /\ rq' = AfterMerge(rq)
    /\ UNCHANGED <<DEFAULT_SAFETY_CONFIG, mg, ck, other, cb, sc>>

InputKeywordCheck ==
    /\ rq.pc = "configMerged"
    /\ rq' = AfterInputKeywordCheck(rq)
    /\ UNCHANGED <<DEFAULT_SAFETY_CONFIG, mg, ck, other, cb, sc>>

InputLLMCheckStart ==
    /\ rq.pc = "inputKeywordChecked"
    /\ rq' = AfterInputLLMCheckStart(rq)
    /\ UNCHANGED <<DEFAULT_SAFETY_CONFIG, mg, ck, other, cb, sc>>

InputLLMCheckEnd ==
    /\ rq.pc = "awaitInputJudge"
    /\ \E outcome \in JudgeOutcomes : rq' = AfterInputLLMCheckEnd(rq, outcome)
    /\ UNCHANGED <<DEFAULT_SAFETY_CONFIG, mg, ck, other, cb, sc>>

ProviderCall ==
    /\ rq.pc = "inputSemanticChecked"
    /\ rq' = AfterProviderCall(rq)
    /\ UNCHANGED <<DEFAULT_SAFETY_CONFIG, mg, ck, other, cb, sc>>

ProviderReturn ==
    /\ rq.pc = "awaitProvider"
    /\ \E outcome \in ProviderOutcomes : rq' = AfterProviderReturn(rq, outcome)
    /\ UNCHANGED <<DEFAULT_SAFETY_CONFIG, mg, ck, other, cb, sc>>

OutputKeywordCheck ==
    /\ rq.pc = "modelInvoked"
    /\ rq' = AfterOutputKeywordCheck(rq)
    /\ UNCHANGED <<DEFAULT_SAFETY_CONFIG, mg, ck, other, cb, sc>>

OutputLLMCheckStart ==
    /\ rq.pc = "outputKeywordChecked"
    /\ rq' = AfterOutputLLMCheckStart(rq)
    /\ UNCHANGED <<DEFAULT_SAFETY_CONFIG, mg, ck, other, cb, sc>>

OutputLLMCheckEnd ==
    /\ rq.pc = "awaitOutputJudge"
    /\ \E outcome \in JudgeOutcomes : rq' = AfterOutputLLMCheckEnd(rq, outcome)
    /\ UNCHANGED <<DEFAULT_SAFETY_CONFIG, mg, ck, other, cb, sc>>

Respond ==
    /\ rq.pc = "outputSemanticChecked"
    /\ rq' = AfterRespond(rq)
    /\ UNCHANGED <<DEFAULT_SAFETY_CONFIG, mg, ck, other, cb, sc>>

Init ==
    /\ DEFAULT_SAFETY_CONFIG = StartupSafetyConfig
    /\ mg = MergeIdle
    /\ rq = RequestIdle
    /\ ck = CheckIdle
    /\ other = RequestIdle
    /\ cb = ChatIdle
    /\ sc = SafetyCheckIdle

Next ==
    \/ ReceiveRequest
    \/ ValidateRequest
    \/ MergeConfig
    \/ InputKeywordCheck
    \/ InputLLMCheckStart
    \/ InputLLMCheckEnd
    \/ ProviderCall
    \/ ProviderReturn
    \/ OutputKeywordCheck
    \/ OutputLLMCheckStart
    \/ OutputLLMCheckEnd
    \/ Respond

\* One request to POST /api/chat, from its arrival to its response.
Spec == Init /\ [][Next]_vars

InitMerge ==
    /\ DEFAULT_SAFETY_CONFIG = StartupSafetyConfig
    /\ mg \in {[pc |-> "call", overrides |-> a, result |-> None] : a \in OverrideArgs}
    /\ rq = RequestIdle
    /\ ck = CheckIdle
    /\ other = RequestIdle
    /\ cb = ChatIdle
    /\ sc = SafetyCheckIdle

NextMerge == MergeCall

\* mergeSafetyConfig applied to every override argument within the bounds.
SpecMerge == InitMerge /\ [][NextMerge]_vars

\* The platform defaults a later release could ship: either flag disabled.
FutureDefaults ==
    {[StartupSafetyConfig EXCEPT !.allowImageInput = img, !.allowFileUpload = file] :
        img \in BOOLEAN, file \in BOOLEAN}

InitFutureDefault ==
    /\ DEFAULT_SAFETY_CONFIG \in FutureDefaults
    /\ mg \in {[pc |-> "call", overrides |-> a, result |-> None] : a \in OverrideArgs}
    /\ rq = RequestIdle
    /\ ck = CheckIdle
    /\ other = RequestIdle
    /\ cb = ChatIdle
    /\ sc = SafetyCheckIdle

\* mergeSafetyConfig under any default value of the two allow flags.
SpecFutureDefault == InitFutureDefault /\ [][NextMerge]_vars

\* The arguments of the direct calls of mergeSafetyConfig made while the
\* server runs.
ServerMergeArgs ==
    RequestOverrides \cup
    {Some([EmptyOverride EXCEPT !.allowedFileMimeTypes = Some(<<"text/plain">>)]),
     Some([EmptyOverride EXCEPT !.blockedTopics = Some(<<"violence">>)])}

\* Line 18-20: mergeSafetyConfig is called, for the first time or again.
MergeStart ==
    /\ mg.pc \in {"idle", "returned"}
    /\ \E a \in ServerMergeArgs : mg' = [pc |-> "call", overrides |-> a, result |-> None]
    /\ UNCHANGED <<DEFAULT_SAFETY_CONFIG, rq, ck, other, cb, sc>>

\* The handler has ended; the router is ready for the next request.
CloseRequest ==
    /\ rq.pc \in {"completed", "rejected", "refused", "crashed"}
    /\ rq' = RequestIdle
    /\ UNCHANGED <<DEFAULT_SAFETY_CONFIG, mg, ck, other, cb, sc>>

NextServer ==
    \/ ReceiveRequest
    \/ ValidateRequest
    \/ MergeConfig
    \/ InputKeywordCheck
    \/ InputLLMCheckStart
    \/ InputLLMCheckEnd
    \/ ProviderCall
    \/ ProviderReturn
    \/ OutputKeywordCheck
    \/ OutputLLMCheckStart
    \/ OutputLLMCheckEnd
    \/ Respond
    \/ CloseRequest
    \/ MergeStart
    \/ MergeCall

\* The running server: any sequence of chat requests, one after another,
\* interleaved with any sequence of direct calls of mergeSafetyConfig.
SpecServer == Init /\ [][NextServer]_vars

InitChecks ==
    /\ DEFAULT_SAFETY_CONFIG = StartupSafetyConfig
    /\ mg = MergeIdle
    /\ rq = RequestIdle
    /\ ck \in CheckCalls
    /\ other = RequestIdle
    /\ cb = ChatIdle
    /\ sc = SafetyCheckIdle

NextChecks ==
    \/ CheckInputCall
    \/ CheckOutputCall
    \/ CheckWithLLMCall

\* checkInput, checkOutput and checkWithLLM applied to their arguments.
SpecChecks == InitChecks /\ [][NextChecks]_vars

\* The handler's own steps: code that runs without waiting for anyone.
HandlerStep ==
    \/ ValidateRequest
    \/ MergeConfig
    \/ InputKeywordCheck
    \/ InputLLMCheckStart
    \/ ProviderCall
    \/ OutputKeywordCheck
    \/ OutputLLMCheckStart
    \/ Respond

\* One request whose own steps are always taken in the end (the event loop
\* runs every ready continuation).  Nothing makes the judge or the provider
\* answer: the three awaited fetch calls carry no timeout or abort signal,
\* so the steps that resume the handler after them are not fair.
SpecLive == Init /\ [][Next]_vars /\ WF_vars(HandlerStep)

(***************************************************************************)
(* Two requests in flight at once.  Node runs one handler at a time and    *)
(* switches between them where one is suspended; the steps below are finer *)
(* than that, so every interleaving of the server is an interleaving here. *)
(***************************************************************************)
\* The bodies of the two requests.
ConcurrentBodies ==
    {[messages |-> m, safetyConfig |-> o,
      model |-> [provider |-> "claude", modelId |-> "claude-sonnet-4-20250514"]] :
        m \in {<<Message("user", <<TextPart(SafeQuestion)>>)>>,
                <<Message("user", <<TextPart(Threat)>>)>>},
        o \in {None}}
    \cup
    {[messages |-> <<Message("user", <<ImagePart>>)>>, safetyConfig |-> Some(EmptyOverride),
      model |-> [provider |-> "claude", modelId |-> "claude-sonnet-4-20250514"]]}

\* What the judge calls of the second request end in.
ConcurrentJudgeOutcomes ==
    {JudgeThrows, JudgeReplies(<<JsonSafe>>), JudgeReplies(<<JsonUnsafe>>)}

\* What the provider call of the second request ends in.
ConcurrentProviderOutcomes ==
    {o \in ProviderOutcomes :
        o.kind = "throw" \/ extractText(o.message.content) \in
                               {<<"DAMN", " ", "this", " ", "homework">>,
                                <<"just", " ", "skip", " ", "school">>}}

\* The first request arrives.
ReceiveConcurrent ==
    /\ rq.pc = "idle"
    /\ \E body \in ConcurrentBodies : rq' = [rq EXCEPT !.pc = "received", !.body = Some(body)]
    /\ UNCHANGED <<DEFAULT_SAFETY_CONFIG, mg, ck, other, cb, sc>>

\* The second request arrives.
OtherReceive ==
    /\ other.pc = "idle"
    /\ \E body \in ConcurrentBodies :
          other' = [other EXCEPT !.pc = "received", !.body = Some(body)]
    /\ UNCHANGED <<DEFAULT_SAFETY_CONFIG, mg, rq, ck, cb, sc>>

\* A second handler whose layersRun array is the first handler's.
OtherMergeConfig_SharedLayersRun ==
    /\ other.pc = "validated"
    /\ other' = AfterMerge(other)
    /\ rq' = [rq EXCEPT !.layersRun = rq.layersRun \o AfterMerge(other).layersRun]
    /\ UNCHANGED <<DEFAULT_SAFETY_CONFIG, mg, ck, cb, sc>>

\* lines 31-48, in the second request.
OtherValidate ==
    /\ other.pc = "received"
    /\ other' = AfterValidate(other)
    /\ UNCHANGED <<DEFAULT_SAFETY_CONFIG, mg, rq, ck, cb, sc>>

\* lines 50-57, in the second request.
OtherMergeConfig ==
    /\ other.pc = "validated"
    /\ other' = AfterMerge(other)
    /\ UNCHANGED <<DEFAULT_SAFETY_CONFIG, mg, rq, ck, cb, sc>>

\* lines 59-72, in the second request.
OtherInputKeywordCheck ==
    /\ other.pc = "configMerged"
    /\ other' = AfterInputKeywordCheck(other)
    /\ UNCHANGED <<DEFAULT_SAFETY_CONFIG, mg, rq, ck, cb, sc>>

\* lines 75-82, in the second request.
OtherInputLLMCheckStart ==
    /\ other.pc = "inputKeywordChecked"
    /\ other' = AfterInputLLMCheckStart(other)
    /\ UNCHANGED <<DEFAULT_SAFETY_CONFIG, mg, rq, ck, cb, sc>>

\* lines 82-106, in the second request.
OtherInputLLMCheckEnd ==
    /\ other.pc = "awaitInputJudge"
    /\ \E outcome \in ConcurrentJudgeOutcomes : other' = AfterInputLLMCheckEnd(other, outcome)
    /\ UNCHANGED <<DEFAULT_SAFETY_CONFIG, mg, rq, ck, cb, sc>>

\* lines 109-119, in the second request.
OtherProviderCall ==
    /\ other.pc = "inputSemanticChecked"
    /\ other' = AfterProviderCall(other)
    /\ UNCHANGED <<DEFAULT_SAFETY_CONFIG, mg, rq, ck, cb, sc>>

\* lines 113-131, in the second request.
OtherProviderReturn ==
    /\ other.pc = "awaitProvider"
    /\ \E outcome \in ConcurrentProviderOutcomes : other' = AfterProviderReturn(other, outcome)
    /\ UNCHANGED <<DEFAULT_SAFETY_CONFIG, mg, rq, ck, cb, sc>>

\* lines 133-158, in the second request.
OtherOutputKeywordCheck ==
    /\ other.pc = "modelInvoked"
    /\ other' = AfterOutputKeywordCheck(other)
    /\ UNCHANGED <<DEFAULT_SAFETY_CONFIG, mg, rq, ck, cb, sc>>

\* lines 160-165, in the second request.
OtherOutputLLMCheckStart ==
    /\ other.pc = "outputKeywordChecked"
    /\ other' = AfterOutputLLMCheckStart(other)
    /\ UNCHANGED <<DEFAULT_SAFETY_CONFIG, mg, rq, ck, cb, sc>>

\* lines 165-215, in the second request.
OtherOutputLLMCheckEnd ==
    /\ other.pc = "awaitOutputJudge"
    /\ \E outcome \in ConcurrentJudgeOutcomes : other' = AfterOutputLLMCheckEnd(other, outcome)
    /\ UNCHANGED <<DEFAULT_SAFETY_CONFIG, mg, rq, ck, cb, sc>>

\* lines 217-231, in the second request.
OtherRespond ==
    /\ other.pc = "outputSemanticChecked"
    /\ other' = AfterRespond(other)
    /\ UNCHANGED <<DEFAULT_SAFETY_CONFIG, mg, rq, ck, cb, sc>>

NextConcurrent ==
    \/ ReceiveConcurrent
    \/ ValidateRequest
    \/ MergeConfig
    \/ InputKeywordCheck
    \/ InputLLMCheckStart
    \/ InputLLMCheckEnd
    \/ ProviderCall
    \/ ProviderReturn
    \/ OutputKeywordCheck
    \/ OutputLLMCheckStart
    \/ OutputLLMCheckEnd
    \/ Respond
    \/ OtherReceive
    \/ OtherValidate
    \/ OtherMergeConfig
    \/ OtherInputKeywordCheck
    \/ OtherInputLLMCheckStart
    \/ OtherInputLLMCheckEnd
    \/ OtherProviderCall
    \/ OtherProviderReturn
    \/ OtherOutputKeywordCheck
    \/ OtherOutputLLMCheckStart
    \/ OtherOutputLLMCheckEnd
    \/ OtherRespond

\* Two chat requests, interleaved step by step.
SpecConcurrent == Init /\ [][NextConcurrent]_vars

\* What the judge or provider call ended in, or a placeholder when the
\* request never made the call.
OutcomeOr(outcome, placeholder) == IF IsSome(outcome) THEN outcome[1] ELSE placeholder

\* lines 30-232 in one piece: the handler run from the arrival of the body
\* to its end with nothing else going on, given what its three external
\* calls end in if it makes them.
HandlerAlone(body, inputJudge, providerOutcome, outputJudge) ==
    LET received  == [RequestIdle EXCEPT !.pc = "received", !.body = body]
        validated == AfterValidate(received)
        merged    == AfterMerge(validated)
        scanned   == AfterInputKeywordCheck(merged)
        started   == AfterInputLLMCheckStart(scanned)
        judged    == IF started.pc = "awaitInputJudge"
                     THEN AfterInputLLMCheckEnd(started, OutcomeOr(inputJudge, JudgeThrows))
                     ELSE started
    IN  IF validated.pc # "validated" THEN validated
        ELSE IF merged.pc # "configMerged" THEN merged
        ELSE IF scanned.pc # "inputKeywordChecked" THEN scanned
        ELSE IF judged.pc # "inputSemanticChecked" THEN judged
        ELSE AfterProviderToResponse(AfterProviderCall(judged),
                                     OutcomeOr(providerOutcome, [kind |-> "throw", message |-> <<>>]),
                                     OutcomeOr(outputJudge, JudgeThrows))

(***************************************************************************)
(* Calls of Chatbot.chat (SpecChatbot) and direct calls of                 *)
(* SafetyChecker.check (SpecSafetyChecker).                                *)
(***************************************************************************)
\* The providers a Chatbot or a SafetyChecker is constructed with.
ProviderSets == {MODEL_IDS, {"gpt", "claude"}, {"claude"}}

CustomSafetyPrompt == <<"My custom safety prompt">>

\* A file block of a conversation.
EssayFilePart ==
    [type |-> "file", data |-> [chars |-> 8, padding |-> 0], mimeType |-> "application/pdf",
     fileName |-> "essay.pdf"]

\* The conversations chat is called with.
ChatMessages ==
    {<<Message("user", <<TextPart(SafeQuestion)>>)>>,
     <<Message("user", <<TextPart(Threat)>>),
       Message("assistant", <<TextPart(<<"ok">>)>>),
       Message("user", <<TextPart(SafeQuestion)>>)>>,
     <<Message("system", <<TextPart(<<"be", " ", "kind">>)>>),
       Message("assistant", <<TextPart(<<"hello">>)>>)>>,
     <<Message("user", <<TextPart(<<"Here", " ", "is", " ", "my", " ", "homework">>),
                         ImagePart, EssayFilePart>>)>>}

\* The requests chat is called with: ChatRequest, types/index.ts lines 52-63.
ChatRequests ==
    [model : MODEL_IDS,
     messages : ChatMessages,
     safetyModel : {None, Some("claude"), Some("gemini")},
     safetyPrompt : {None, Some(CustomSafetyPrompt)},
     skipSafety : {None, Some(TRUE), Some(FALSE)}]

AssistantText(text) == Message("assistant", <<TextPart(text)>>)

\* What the safety model answers.
SafetyReplies ==
    {AssistantText(<<JsonSafe>>),
     AssistantText(<<JsonUnsafe>>),
     AssistantText(<<JsonUnsafeBare>>),
     AssistantText(<<JsonNoSafe>>),
     AssistantText(<<JsonSafeAsString>>),
     AssistantText(<<Fence, "json", "\n", JsonSafe, "\n", Fence>>),
     AssistantText(<<"I", " ", "don't", " ", "know", " ", "how", " ", "to", " ", "respond">>),
     AssistantText(<<BrokenJson>>),
     AssistantText(<<JsonSafe, " ", "or", " ", JsonUnsafe>>),
     Message("assistant", <<ImagePart>>),
     Message("assistant", <<TextPart(<<"verdict", ":", " ">>), ImagePart, TextPart(<<JsonUnsafe>>)>>)}

\* What the target model answers.
TargetReplies ==
    {AssistantText(<<"Photosynthesis", " ", "is", " ", "the", " ", "process">>),
     AssistantText(<<"bad", " ", "response">>)}

\* What a call of chat on provider ends in, given the messages it may
\* resolve with.
ChatOutcomes(provider, replies) ==
    {ChatThrows(ProviderError(provider)), ChatThrows(NetworkError)}
    \cup {ChatReplies(m) : m \in replies}

\* The provider of the call that is awaited.
AwaitedProvider(c) == c.calls[Len(c.calls)].provider

\* new Chatbot(providers).chat(request), up to the first await or throw.
ChatStart ==
    /\ cb.pc = "idle"
    /\ \E providers \in ProviderSets, request \in ChatRequests :
          cb' = ChatBegin([ChatIdle EXCEPT !.providers = providers], request)
    /\ UNCHANGED <<DEFAULT_SAFETY_CONFIG, mg, rq, ck, other, sc>>

\* The safety model's call for the input check ends.
InputCheckReturn ==
    /\ cb.pc = "awaitInputCheck"
    /\ \E outcome \in ChatOutcomes(AwaitedProvider(cb), SafetyReplies) :
          cb' = AfterInputCheck([cb EXCEPT !.outcomes = Append(@, outcome)], outcome)
    /\ UNCHANGED <<DEFAULT_SAFETY_CONFIG, mg, rq, ck, other, sc>>

\* The target model's call ends.
ForwardReturn ==
    /\ cb.pc = "awaitProvider"
    /\ \E outcome \in ChatOutcomes(AwaitedProvider(cb), TargetReplies) :
          cb' = AfterForward([cb EXCEPT !.outcomes = Append(@, outcome)], outcome)
    /\ UNCHANGED <<DEFAULT_SAFETY_CONFIG, mg, rq, ck, other, sc>>

\* The safety model's call for the output check ends.
OutputCheckReturn ==
    /\ cb.pc = "awaitOutputCheck"
    /\ \E outcome \in ChatOutcomes(AwaitedProvider(cb), SafetyReplies) :
          cb' = AfterOutputCheck([cb EXCEPT !.outcomes = Append(@, outcome)], outcome)
    /\ UNCHANGED <<DEFAULT_SAFETY_CONFIG, mg, rq, ck, other, sc>>

NextChatbot == ChatStart \/ InputCheckReturn \/ ForwardReturn \/ OutputCheckReturn

SpecChatbot == Init /\ [][NextChatbot]_vars

\* The configs a SafetyChecker is constructed with: Partial<SafetyConfig>.
CheckerConfigs ==
    {None,
     Some([model |-> Some("claude"), prompt |-> None]),
     Some([model |-> Some("gemini"), prompt |-> None]),
     Some([model |-> None, prompt |-> Some(CustomSafetyPrompt)])}

\* The overrides check is called with.
CheckerOverrides ==
    {None,
     Some([model |-> None, prompt |-> None]),
     Some([model |-> Some("gemini"), prompt |-> None]),
     Some([model |-> Some("gpt"), prompt |-> Some(CustomSafetyPrompt)])}

\* The content check is called with.
CheckerContents ==
    {<<TextPart(<<"hello">>)>>,
     <<TextPart(<<"Here", " ", "is", " ", "my", " ", "homework">>), ImagePart, EssayFilePart>>}

\* A check that falls back to the first registered provider.
SafetyCheckStart_Fallback ==
    /\ sc.pc = "idle"
    /\ \E providers \in ProviderSets, config \in CheckerConfigs,
          content \in CheckerContents, overrides \in CheckerOverrides :
          LET checker == SafetyCheckerConfig(config)
              begin == CheckBegin(providers, checker, content, overrides)
              start == [SafetyCheckIdle EXCEPT !.providers = providers, !.config = checker,
                                               !.content = content, !.overrides = overrides]
          IN  sc' = [start EXCEPT !.pc = "awaitSafetyModel",
                                  !.calls = <<[provider |-> CHOOSE p \in providers : TRUE,
                                               messages |-> SafetyMessages(
                                                   CheckPrompt(checker, overrides), content)]>>]
    /\ UNCHANGED <<DEFAULT_SAFETY_CONFIG, mg, rq, ck, other, cb>>

\* new SafetyChecker(providers, config).check(content, overrides), up to its
\* await or throw: lines 41-50 and 58-90.
SafetyCheckStart ==
    /\ sc.pc = "idle"
    /\ \E providers \in ProviderSets, config \in CheckerConfigs,
          content \in CheckerContents, overrides \in CheckerOverrides :
          LET checker == SafetyCheckerConfig(config)
              begin == CheckBegin(providers, checker, content, overrides)
              start == [SafetyCheckIdle EXCEPT !.providers = providers, !.config = checker,
                                               !.content = content, !.overrides = overrides]
          IN  sc' = IF begin.kind = "throw"
                    THEN [start EXCEPT !.pc = "thrown", !.error = Some(begin.error)]
                    ELSE [start EXCEPT !.pc = "awaitSafetyModel",
                                       !.calls = <<[provider |-> begin.provider,
                                                    messages |-> begin.messages]>>]
    /\ UNCHANGED <<DEFAULT_SAFETY_CONFIG, mg, rq, ck, other, cb>>

\* The safety model's call ends: lines 90-92.
SafetyCheckReturn ==
    /\ sc.pc = "awaitSafetyModel"
    /\ \E outcome \in ChatOutcomes(sc.calls[1].provider, SafetyReplies) :
          LET end == CheckEnd(sc.calls[1].provider, outcome)
          IN  sc' = IF end.kind = "throw"
                    THEN [sc EXCEPT !.pc = "thrown", !.error = Some(end.error)]
                    ELSE [sc EXCEPT !.pc = "returned", !.result = Some(end.result),
                                    !.reply = Some(outcome.message)]
    /\ UNCHANGED <<DEFAULT_SAFETY_CONFIG, mg, rq, ck, other, cb>>

NextSafetyChecker == SafetyCheckStart \/ SafetyCheckReturn

SpecSafetyChecker == Init /\ [][NextSafetyChecker]_vars

(***************************************************************************)
(* Properties of the request pipeline (Spec).                              *)
(***************************************************************************)
\* JSON.parse throws on the reply, code fence removed.
Unparseable(raw) == ~JsonParses(CleanReply(raw))

IsUnparseableReply(outcome) ==
    IsSome(outcome) /\ outcome[1].kind = "reply" /\ Unparseable(outcome[1].raw)

JudgeFailed(outcome) ==
    IsSome(outcome) /\ (outcome[1].kind = "throw" \/ IsUnparseableReply(outcome))

ProviderInvoked == \E k \in 1..Len(rq.trace) : rq.trace[k] = "provider"

\* C1: when the semantic layer is enabled, the text is not empty and the
\* judge's reply cannot be parsed, checkWithLLM returns safe = false.
C1_UnparseableVerdictIsUnsafe ==
    /\ IsUnparseableReply(rq.inputJudge) =>
          IsSome(rq.llmInputCheck) /\ ~rq.llmInputCheck[1].safe
    /\ IsUnparseableReply(rq.outputJudge) =>
          IsSome(rq.llmOutputCheck) /\ ~rq.llmOutputCheck[1].safe

\* C2: if the judge's response for the input errors or is unparseable, the
\* target model is never invoked; if the judge's response for the output
\* errors or is unparseable, the model's message is never returned.
C2_RequestFailsClosed ==
    /\ JudgeFailed(rq.inputJudge) => ~ProviderInvoked
    /\ JudgeFailed(rq.outputJudge) =>
          /\ rq.pc # "completed"
          /\ IsSome(rq.response) =>
                rq.response[1].message # rq.providerResponse[1].message

\* C3: when the judge call on the input throws, the request is rejected with
\* SAFETY_CHECK_ERROR and the provider is never invoked.
C3_JudgeThrowRejects ==
    rq.inputJudge = Some(JudgeThrows) =>
        /\ rq.pc = "rejected"
        /\ rq.response[1].kind = "error"
        /\ rq.response[1].code = "SAFETY_CHECK_ERROR"
        /\ rq.response[1].code # "INPUT_SAFETY_VIOLATION"
        /\ ~ProviderInvoked

\* The semantic layer was enabled, the judge was called on the input, and
\* the call threw.
C3_Witness ==
    /\ rq.inputJudge = Some(JudgeThrows)
    /\ rq.safetyConfig[1].llmSafety.enabled
    /\ rq.trace = <<"keyword:input", "judge:input">>
    /\ IsSome(rq.response)

JudgeInvoked ==
    \E k \in 1..Len(rq.trace) : rq.trace[k] \in {"judge:input", "judge:output"}

InputKeywordUnsafe == IsSome(rq.keywordInputCheck) /\ ~rq.keywordInputCheck[1].safe

\* C12: when the keyword pre-filter finds the input unsafe, the request is
\* rejected with INPUT_SAFETY_VIOLATION and the filter's reason, and neither
\* the judge nor the provider is invoked.
C12_KeywordUnsafeRejects ==
    InputKeywordUnsafe =>
        /\ rq.pc = "rejected"
        /\ rq.response[1].kind = "error"
        /\ rq.response[1].code = "INPUT_SAFETY_VIOLATION"
        /\ IsSome(rq.keywordInputCheck[1].reason)
        /\ rq.response[1].message = rq.keywordInputCheck[1].reason[1]
        /\ ~JudgeInvoked
        /\ ~ProviderInvoked
        /\ rq.trace = <<"keyword:input">>

\* The pre-filter flagged a topic in the user's text, and the handler has
\* answered.
C12_Witness ==
    /\ InputKeywordUnsafe
    /\ rq.keywordInputCheck[1].flaggedTopics # <<>>
    /\ IsSome(rq.response)

\* The request carries no safetyConfig and one user message with this text.
DefaultRequestWith(text) ==
    /\ IsSome(rq.body)
    /\ rq.body[1].safetyConfig = None
    /\ rq.body[1].messages = <<Message("user", <<TextPart(text)>>)>>

\* C13 (Scenario A): with the default configuration the user text
\* "kill yourself" is rejected at the input keyword stage with
\* INPUT_SAFETY_VIOLATION, self_harm is among the flagged topics and the
\* provider is never invoked; the bare word "kill" is not flagged.
C13_ScenarioA ==
    /\ (DefaultRequestWith(<<"kill", " ", "yourself">>) /\ IsSome(rq.keywordInputCheck)) =>
          /\ rq.pc = "rejected"
          /\ rq.trace = <<"keyword:input">>
          /\ rq.response[1].code = "INPUT_SAFETY_VIOLATION"
          /\ "self_harm" \in SeqToSet(rq.keywordInputCheck[1].flaggedTopics)
          /\ ~ProviderInvoked
    /\ (DefaultRequestWith(<<"kill">>) /\ IsSome(rq.keywordInputCheck)) =>
          rq.keywordInputCheck[1].safe

\* What the code does in Scenario A: the request is rejected as the scenario
\* says, but the one topic flagged for "kill yourself" is violence.
ScenarioA_FlagsViolence ==
    /\ (DefaultRequestWith(<<"kill", " ", "yourself">>) /\ IsSome(rq.keywordInputCheck)) =>
          /\ rq.pc = "rejected"
          /\ rq.trace = <<"keyword:input">>
          /\ rq.response[1].code = "INPUT_SAFETY_VIOLATION"
          /\ rq.keywordInputCheck[1].flaggedTopics = <<"violence">>
          /\ ~ProviderInvoked
    /\ (DefaultRequestWith(<<"kill">>) /\ IsSome(rq.keywordInputCheck)) =>
          /\ rq.keywordInputCheck[1].safe
          /\ rq.trace = <<"keyword:input">> => rq.pc = "inputKeywordChecked"

\* The request with the text "kill yourself" has been answered.
ScenarioA_Answered ==
    /\ DefaultRequestWith(<<"kill", " ", "yourself">>)
    /\ IsSome(rq.keywordInputCheck)
    /\ IsSome(rq.response)

\* The judge replied, and its reply parses to a verdict with safe = false.
UnsafeVerdict(outcome) ==
    IsSome(outcome) /\ outcome[1].kind = "reply" /\ ~parseVerdict(outcome[1].raw).safe

\* C14: when the judge returns an unsafe verdict for the input, the request
\* is rejected with INPUT_SAFETY_VIOLATION and the provider is never invoked.
C14_UnsafeInputVerdictRejects ==
    UnsafeVerdict(rq.inputJudge) =>
        /\ rq.pc = "rejected"
        /\ rq.response[1].kind = "error"
        /\ rq.response[1].code = "INPUT_SAFETY_VIOLATION"
        /\ ~rq.llmInputCheck[1].safe
        /\ ~ProviderInvoked

\* The keyword filter passed the input, the judge was called and answered
\* with an unsafe verdict inside a code fence.
C14_Witness ==
    /\ rq.inputJudge = Some(JudgeReplies(<<Fence, "json", "\n", JsonUnsafe, "\n", Fence>>))
    /\ rq.keywordInputCheck[1].safe
    /\ IsSome(rq.response)

\* The place of a stage in the order of section 5 of the handler.
StageRank(event) ==
    CASE event = "keyword:input"  -> 1
      [] event = "judge:input"    -> 2
      [] event = "provider"       -> 3
      [] event = "keyword:output" -> 4
      [] event = "judge:output"   -> 5

Ran(event) == \E k \in 1..Len(rq.trace) : rq.trace[k] = event

PassedCheck(result) == IsSome(result) /\ result[1].safe

SemanticEnabled == IsSome(rq.safetyConfig) /\ rq.safetyConfig[1].llmSafety.enabled

\* C15: the stages run in the handler's order, each at most once, and a
\* stage runs only when every earlier stage has run and passed: the input
\* keyword check before any judge call, the provider only after the input
\* keyword check and (when enabled) the input semantic check returned safe,
\* the output keyword check before the output judge call.
C15_StageOrdering ==
    /\ \A j, k \in 1..Len(rq.trace) : j < k => StageRank(rq.trace[j]) < StageRank(rq.trace[k])
    /\ Len(rq.trace) > 0 => rq.trace[1] = "keyword:input"
    /\ Ran("judge:input") => PassedCheck(rq.keywordInputCheck)
    /\ Ran("provider") =>
          /\ PassedCheck(rq.keywordInputCheck)
          /\ SemanticEnabled => PassedCheck(rq.llmInputCheck)
    /\ Ran("keyword:output") =>
          /\ Ran("provider")
          /\ IsSome(rq.providerResponse) /\ rq.providerResponse[1].kind = "ok"
    /\ Ran("judge:output") =>
          /\ Ran("keyword:output")
          /\ PassedCheck(rq.keywordOutputCheck)
    /\ rq.pc = "completed" =>
          /\ PassedCheck(rq.keywordOutputCheck)
          /\ SemanticEnabled => PassedCheck(rq.llmOutputCheck)

\* A request went through all five stages, both judge calls included.
C15_Witness ==
    /\ rq.trace = <<"keyword:input", "judge:input", "provider", "keyword:output", "judge:output">>
    /\ rq.pc = "completed"

ProviderFailed == IsSome(rq.providerResponse) /\ rq.providerResponse[1].kind = "throw"

\* C16: when the provider call fails, the request is rejected with
\* PROVIDER_ERROR and the error's own message; no output check runs and no
\* ChatResponse is produced.
C16_ProviderFailureRejects ==
    ProviderFailed =>
        /\ rq.pc = "rejected"
        /\ rq.response[1].kind = "error"
        /\ rq.response[1].code = "PROVIDER_ERROR"
        /\ rq.response[1].message = rq.providerResponse[1].message
        /\ ~Ran("keyword:output") /\ ~Ran("judge:output")
        /\ rq.keywordOutputCheck = None /\ rq.llmOutputCheck = None

\* Both input checks passed, the provider was called and the call threw.
C16_Witness ==
    /\ ProviderFailed
    /\ rq.trace = <<"keyword:input", "judge:input", "provider">>
    /\ IsSome(rq.response)

\* The response is a successful ChatResponse that carries this fixed text
\* as a single text part of an assistant message, and outputCheckPassed = false.
RefusedWith(text) ==
    /\ rq.pc = "refused"
    /\ rq.response[1].kind = "chat"
    /\ rq.response[1].status = 200
    /\ rq.response[1].message.role = "assistant"
    /\ rq.response[1].message.content = <<TextPart(text)>>
    /\ ~rq.response[1].safetyMeta.outputCheckPassed

\* C17: when the keyword check or the judge finds the output unsafe, the
\* request completes successfully with the fixed refusal text,
\* outputCheckPassed = false, the check's flagged topics, and flaggedBy
\* naming the layer: keyword for the keyword check, llm for the judge.
C17_UnsafeOutputRefused ==
    /\ (IsSome(rq.keywordOutputCheck) /\ ~rq.keywordOutputCheck[1].safe) =>
          /\ RefusedWith(RefusalText)
          /\ rq.response[1].safetyMeta.flaggedTopics = rq.keywordOutputCheck[1].flaggedTopics
          /\ rq.response[1].safetyMeta.flaggedBy = Some("keyword")
    /\ UnsafeVerdict(rq.outputJudge) =>
          /\ RefusedWith(RefusalText)
          /\ rq.response[1].safetyMeta.flaggedTopics =
                parseVerdict(rq.outputJudge[1].raw).flaggedTopics
          /\ rq.response[1].safetyMeta.flaggedTopics = rq.llmOutputCheck[1].flaggedTopics
          /\ rq.response[1].safetyMeta.flaggedBy = Some("llm")

\* Scenario B: the input was safe and the keyword check flagged profanity
\* in the provider's message.
C17_Witness ==
    /\ IsSome(rq.keywordOutputCheck)
    /\ rq.keywordOutputCheck[1].flaggedTopics = <<"profanity">>
    /\ IsSome(rq.response)
    /\ rq.response[1].safetyMeta.flaggedBy = Some("keyword")

\* C18: when the judge call on the output throws, the request is refused,
\* not rejected: it completes successfully with the verification-failed
\* text, which differs from the refusal text, outputCheckPassed = false and
\* no flagged topics.
C18_OutputJudgeThrowRefuses ==
    rq.outputJudge = Some(JudgeThrows) =>
        /\ RefusedWith(VerificationFailedText)
        /\ VerificationFailedText # RefusalText
        /\ rq.response[1].safetyMeta.flaggedTopics = <<>>

\* The output passed the keyword check, the judge was called on it and the
\* call threw.
C18_Witness ==
    /\ rq.outputJudge = Some(JudgeThrows)
    /\ rq.keywordOutputCheck[1].safe
    /\ rq.trace[Len(rq.trace)] = "judge:output"
    /\ IsSome(rq.response)

\* The handler r answered with a ChatResponse whose outputCheckPassed is false.
OutputBlocked(r) ==
    /\ IsSome(r.response)
    /\ r.response[1].kind = "chat"
    /\ ~r.response[1].safetyMeta.outputCheckPassed

\* The phase in which the output of r was blocked.
BlockedPhase(r) ==
    IF r.response[1].safetyMeta.flaggedBy = Some("keyword") THEN "output keyword"
    ELSE IF r.outputJudge = Some(JudgeThrows) THEN "semantic-check failure"
    ELSE "output semantic"

ResponseText(r) == r.response[1].message.content[1].text

\* C19: a response with outputCheckPassed = false carries one of the two
\* fixed texts and nothing of the provider's output; and from any point
\* where the provider call is pending, two continuations that differ in the
\* provider's output and are blocked in the same phase give the same
\* message.
C19_NoLeakage ==
    /\ OutputBlocked(rq) =>
          /\ Len(rq.response[1].message.content) = 1
          /\ ResponseText(rq) \in {RefusalText, VerificationFailedText}
          /\ ResponseText(rq) # OutputText(rq)
          /\ SeqToSet(ResponseText(rq)) \cap SeqToSet(OutputText(rq)) = {}
    /\ rq.pc = "awaitProvider" =>
          \A o1, o2 \in ProviderOutcomes : \A j1, j2 \in JudgeOutcomes :
             LET one == AfterProviderToResponse(rq, o1, j1)
                 two == AfterProviderToResponse(rq, o2, j2)
             IN  (OutputBlocked(one) /\ OutputBlocked(two)
                    /\ BlockedPhase(one) = BlockedPhase(two)) =>
                    one.response[1].message = two.response[1].message

\* The keyword check blocked the provider's output, and the provider could
\* have returned a different message that the keyword check blocks as well.
C19_Witness ==
    /\ OutputBlocked(rq)
    /\ BlockedPhase(rq) = "output keyword"
    /\ \E o \in ProviderOutcomes :
          /\ o.kind = "ok"
          /\ o # rq.providerResponse[1]
          /\ ~checkOutput(o.message, rq.safetyConfig[1]).safe

IsChatResponse == IsSome(rq.response) /\ rq.response[1].kind = "chat"

\* C20: in every ChatResponse, clean or refused, layersRun starts with
\* keyword, lists llm (the semantic layer) after it if at all, and lists llm
\* only if llmSafety is enabled in the request's merged configuration.
C20_LayersRunOrder ==
    IsChatResponse =>
        LET layersRun == rq.response[1].safetyMeta.layersRun
        IN  /\ Len(layersRun) >= 1
            /\ layersRun[1] = "keyword"
            /\ \A k \in 2..Len(layersRun) : layersRun[k] = "llm"
            /\ \A j, k \in 1..Len(layersRun) : j # k => layersRun[j] # layersRun[k]
            /\ "llm" \in SeqToSet(layersRun) => rq.safetyConfig[1].llmSafety.enabled

\* A clean response of a request checked by both layers.
C20_Witness ==
    /\ IsChatResponse
    /\ rq.pc = "completed"
    /\ rq.response[1].safetyMeta.layersRun = <<"keyword", "llm">>
    /\ rq.safetyConfig[1].llmSafety.enabled

RECURSIVE LayersOf(_)
\* The layers of the checks of a trace, each once, in order of first use.
LayersOf(trace) ==
    IF trace = <<>> THEN <<>>
    ELSE LET before == LayersOf(SubSeq(trace, 1, Len(trace) - 1))
             last   == trace[Len(trace)]
             layer  == IF last \in {"keyword:input", "keyword:output"} THEN <<"keyword">>
                       ELSE IF last \in {"judge:input", "judge:output"} THEN <<"llm">>
                       ELSE <<>>
         IN  IF layer # <<>> /\ layer[1] \notin SeqToSet(before) THEN before \o layer
             ELSE before

\* C21: in every ChatResponse, layersRun lists exactly the layers whose check
\* was performed for the request, in execution order; llm is listed if and
\* only if the judge was consulted.
C21_LayersRunAreLayersExecuted ==
    IsChatResponse =>
        /\ rq.response[1].safetyMeta.layersRun = LayersOf(rq.trace)
        /\ "llm" \in SeqToSet(rq.response[1].safetyMeta.layersRun) <=> JudgeInvoked

\* C22: a request is completed only when the provider call succeeded and
\* every enabled input and output check returned safe; the response then
\* carries the provider's message unchanged, the provider's usage counters
\* if it gave any, both pass flags true, no flagged topics and no flaggedBy.
C22_CompletedIsClean ==
    rq.pc = "completed" =>
        /\ PassedCheck(rq.keywordInputCheck)
        /\ SemanticEnabled => PassedCheck(rq.llmInputCheck)
        /\ IsSome(rq.providerResponse) /\ rq.providerResponse[1].kind = "ok"
        /\ PassedCheck(rq.keywordOutputCheck)
        /\ SemanticEnabled => PassedCheck(rq.llmOutputCheck)
        /\ rq.response[1].kind = "chat"
        /\ rq.response[1].status = 200
        /\ rq.response[1].message = rq.providerResponse[1].message
        /\ rq.response[1].usage = rq.providerResponse[1].usage
        /\ rq.response[1].safetyMeta.inputCheckPassed
        /\ rq.response[1].safetyMeta.outputCheckPassed
        /\ rq.response[1].safetyMeta.flaggedTopics = <<>>
        /\ rq.response[1].safetyMeta.flaggedBy = None

\* A completed request whose provider reported usage counters.
C22_Witness ==
    /\ rq.pc = "completed"
    /\ rq.response[1].usage = Some([inputTokens |-> 12, outputTokens |-> 9])
    /\ rq.trace = <<"keyword:input", "judge:input", "provider", "keyword:output", "judge:output">>
    /\ rq.inputJudge = Some(JudgeReplies(<<JsonSafe>>))
    /\ rq.outputJudge = Some(JudgeReplies(<<JsonSafe>>))

LengthViolation == StructuralFailure("Input text exceeds maximum length")

\* The request of Scenario C: maxInputLength = 50 and one text part of 60
\* characters, which also matches a self_harm pattern.
ScenarioCRequest ==
    /\ IsSome(rq.body)
    /\ rq.body[1].safetyConfig = Some([EmptyOverride EXCEPT !.maxInputLength = Some(50)])
    /\ rq.body[1].messages = <<Message("user", <<TextPart(SixtyCharacters)>>)>>

\* C23 (Scenario C): a request that submits maxInputLength = 50 is merged to
\* a configuration with maxInputLength 50, and with a text part of 60
\* characters it is rejected for its length, with no topic flagged, although
\* the text matches a blocked-topic pattern.
C23_ScenarioC ==
    (ScenarioCRequest /\ rq.pc \notin {"idle", "received", "validated"}) =>
        /\ rq.safetyConfig[1].maxInputLength = 50
        /\ rq.pc \in {"configMerged", "rejected"}
        /\ rq.pc = "rejected" =>
              /\ rq.keywordInputCheck = Some(LengthViolation)
              /\ rq.keywordInputCheck[1].flaggedTopics = <<>>
              /\ rq.response[1].code = "INPUT_SAFETY_VIOLATION"
              /\ rq.response[1].message = LengthViolation.reason[1]

Count(event) == Cardinality({k \in 1..Len(rq.trace) : rq.trace[k] = event})

LastEvent == rq.trace[Len(rq.trace)]

Terminal == rq.pc \in {"completed", "rejected", "refused"}

\* C28: each external call of a request (the judge on the input, the
\* provider, the judge on the output) is issued at most once, and when one
\* fails the request ends there: the handler has answered, the failed call
\* is the last thing it did, and it takes no further step.
C28_NoRetries ==
    /\ Count("judge:input") <= 1
    /\ Count("provider") <= 1
    /\ Count("judge:output") <= 1
    /\ rq.inputJudge = Some(JudgeThrows) => (Terminal /\ LastEvent = "judge:input")
    /\ ProviderFailed => (Terminal /\ LastEvent = "provider")
    /\ rq.outputJudge = Some(JudgeThrows) => (Terminal /\ LastEvent = "judge:output")
    /\ Terminal => (IsSome(rq.response) /\ ~ENABLED Next)

\* The provider call failed after both input checks had passed.
C28_Witness ==
    /\ ProviderFailed
    /\ Count("provider") = 1
    /\ Count("judge:input") = 1
    /\ Terminal

\* C29: every request that waits for the judge or for the provider gets a
\* terminal outcome in the end, whether or not the call is ever answered.
C29_EventuallyTerminal ==
    (rq.pc \in {"awaitInputJudge", "awaitProvider", "awaitOutputJudge"}) ~> Terminal

\* The handler has run to its end: it returned after sending a response, or
\* an exception left it.
HandlerEnded == rq.pc \in {"completed", "rejected", "refused", "crashed"}

ErrorCodes ==
    {"INVALID_REQUEST", "INPUT_SAFETY_VIOLATION", "SAFETY_CHECK_ERROR", "PROVIDER_ERROR"}

\* The response is one of the terminal outcomes, and the one its state names.
OutcomeSent ==
    /\ IsSome(rq.response)
    /\ rq.pc = "rejected" =>
          rq.response[1].kind = "error" /\ rq.response[1].code \in ErrorCodes
    /\ rq.pc = "refused" =>
          rq.response[1].kind = "chat" /\ ~rq.response[1].safetyMeta.outputCheckPassed
    /\ rq.pc = "completed" =>
          rq.response[1].kind = "chat" /\ rq.response[1].safetyMeta.outputCheckPassed

\* C37: a request whose handler has run to its end has sent exactly one
\* response, an error response with one of the four codes, a refusal or a
\* completed response, and takes no further step; a handler still running
\* has sent none.
C37_ExactlyOneTerminalOutcome ==
    /\ HandlerEnded => (OutcomeSent /\ ~ENABLED Next)
    /\ ~HandlerEnded => rq.response = None

\* The same for every request whose handler does not end in the exception
\* of chat.ts:55.
OneOutcomeUnlessCrashed ==
    /\ (HandlerEnded /\ rq.pc # "crashed") => (OutcomeSent /\ ~ENABLED Next)
    /\ ~HandlerEnded => rq.response = None

\* C38: in every ChatResponse inputCheckPassed is true; outputCheckPassed is
\* true exactly when flaggedBy is absent, and exactly when the message is the
\* provider's message; and flaggedTopics is empty when outputCheckPassed is
\* true.
C38_SafetyMetaConsistent ==
    (IsSome(rq.response) /\ rq.response[1].kind = "chat") =>
        LET meta == rq.response[1].safetyMeta
        IN  /\ meta.inputCheckPassed
            /\ meta.outputCheckPassed <=> (meta.flaggedBy = None)
            /\ meta.outputCheckPassed <=>
                   (rq.response[1].message = rq.providerResponse[1].message)
            /\ meta.outputCheckPassed => (meta.flaggedTopics = <<>>)

\* A refusal whose flaggedTopics is empty: the judge threw on the output.
C38_Witness ==
    /\ rq.pc = "refused"
    /\ rq.outputJudge = Some(JudgeThrows)
    /\ rq.response[1].safetyMeta.flaggedTopics = <<>>
    /\ rq.response[1].safetyMeta.flaggedBy = Some("llm")
    /\ rq.response[1].message # rq.providerResponse[1].message

(***************************************************************************)
(* Properties of mergeSafetyConfig (SpecMerge, SpecFutureDefault).         *)
(***************************************************************************)
MergeReturned == mg.pc = "returned"

\* The argument object of a call that was given one.
Given == mg.overrides[1]

Merged == mg.result[1]

IsPrefixOf(p, t) == Len(p) <= Len(t) /\ SubSeq(t, 1, Len(p)) = p

\* C4: for every override, absent fields included, the three numeric limits
\* of the merged configuration are at most the platform default's.
C4_LimitsNeverExceedDefault ==
    MergeReturned =>
        /\ Merged.maxInputLength <= DEFAULT_SAFETY_CONFIG.maxInputLength
        /\ Merged.maxOutputTokens <= DEFAULT_SAFETY_CONFIG.maxOutputTokens
        /\ Merged.maxFileSizeBytes <= DEFAULT_SAFETY_CONFIG.maxFileSizeBytes

\* The caller asked for limits above the default and for one below it.
C4_Witness ==
    /\ MergeReturned
    /\ IsSome(mg.overrides)
    /\ Given.maxInputLength = Some(DefaultMaxInputLength + 1)
    /\ Given.maxFileSizeBytes = Some(DefaultMaxFileSizeBytes + 1)
    /\ Given.maxOutputTokens = Some(50)
    /\ Merged.maxOutputTokens = 50

\* C5: the merged blockedTopics are, as a set, the union of the default
\* topics and the caller's topics; the nine default topics are always there.
C5_TopicsAreUnion ==
    MergeReturned =>
        /\ SeqToSet(Merged.blockedTopics) =
              SeqToSet(DEFAULT_SAFETY_CONFIG.blockedTopics) \cup
              (IF IsSome(mg.overrides) /\ IsSome(Given.blockedTopics)
               THEN SeqToSet(Given.blockedTopics[1]) ELSE {})
        /\ SeqToSet(BlockedTopics) \subseteq SeqToSet(Merged.blockedTopics)
        /\ Cardinality(SeqToSet(BlockedTopics)) = 9

\* Scenario E: the caller submitted blockedTopics = ["violence"] only.
C5_Witness ==
    /\ MergeReturned
    /\ IsSome(mg.overrides)
    /\ Given.blockedTopics = Some(<<"violence">>)
    /\ "self_harm" \in SeqToSet(Merged.blockedTopics)

\* C6: every merged MIME type is in the default allow-list, and when the
\* caller supplies a list the result is the intersection of the two lists.
C6_MimeTypesAreIntersection ==
    MergeReturned =>
        /\ SeqToSet(Merged.allowedFileMimeTypes) \subseteq
              SeqToSet(DEFAULT_SAFETY_CONFIG.allowedFileMimeTypes)
        /\ (IsSome(mg.overrides) /\ IsSome(Given.allowedFileMimeTypes)) =>
              SeqToSet(Merged.allowedFileMimeTypes) =
                 SeqToSet(Given.allowedFileMimeTypes[1]) \cap
                 SeqToSet(DEFAULT_SAFETY_CONFIG.allowedFileMimeTypes)

\* The caller asked for a type outside the default list and one inside it.
C6_Witness ==
    /\ MergeReturned
    /\ IsSome(mg.overrides)
    /\ Given.allowedFileMimeTypes = Some(<<"image/gif", "text/plain">>)
    /\ Merged.allowedFileMimeTypes = <<"text/plain">>

\* C7: under any platform default, a merged allow flag is false if the
\* default or the caller's value is false; a caller's true never re-enables
\* a flag the default disables.
C7_FlagsOnlyDisable ==
    MergeReturned =>
        /\ (~DEFAULT_SAFETY_CONFIG.allowImageInput
              \/ (IsSome(mg.overrides) /\ Given.allowImageInput = Some(FALSE)))
           => ~Merged.allowImageInput
        /\ (~DEFAULT_SAFETY_CONFIG.allowFileUpload
              \/ (IsSome(mg.overrides) /\ Given.allowFileUpload = Some(FALSE)))
           => ~Merged.allowFileUpload

\* The default disables image input and the caller asks to enable it.
C7_Witness ==
    /\ MergeReturned
    /\ ~DEFAULT_SAFETY_CONFIG.allowImageInput
    /\ IsSome(mg.overrides)
    /\ Given.allowImageInput = Some(TRUE)
    /\ ~Merged.allowImageInput

\* C8: the merged systemPromptPrefix begins with the whole default prefix; a
\* caller's prefix follows it and neither replaces nor truncates it.
C8_PrefixIsAppended ==
    MergeReturned =>
        /\ IsPrefixOf(DEFAULT_SAFETY_CONFIG.systemPromptPrefix, Merged.systemPromptPrefix)
        /\ (IsSome(mg.overrides) /\ IsSome(Given.systemPromptPrefix)
              /\ Given.systemPromptPrefix[1] # <<>>) =>
              Merged.systemPromptPrefix =
                 DEFAULT_SAFETY_CONFIG.systemPromptPrefix \o <<" ">>
                    \o Given.systemPromptPrefix[1]
        /\ (IsSome(mg.overrides) /\ Given.systemPromptPrefix \in {None, Some(<<>>)}) =>
              Merged.systemPromptPrefix = DEFAULT_SAFETY_CONFIG.systemPromptPrefix

\* The caller supplied a prefix of its own.
C8_Witness ==
    /\ MergeReturned
    /\ IsSome(mg.overrides)
    /\ Given.systemPromptPrefix = Some(<<"Answer in French.">>)
    /\ Len(Merged.systemPromptPrefix) = Len(DefaultSystemPromptPrefix) + 2

\* C9: every call of mergeSafetyConfig returns, and without overrides the
\* result equals the platform default field by field, llmSafety included.
C9_AbsentOverridesGiveDefault ==
    /\ mg.pc = "call" => ENABLED MergeCall
    /\ (MergeReturned /\ ~IsSome(mg.overrides)) =>
          /\ DOMAIN Merged = DOMAIN DEFAULT_SAFETY_CONFIG
          /\ \A f \in DOMAIN DEFAULT_SAFETY_CONFIG : Merged[f] = DEFAULT_SAFETY_CONFIG[f]
          /\ Merged.llmSafety = StartupSafetyConfig.llmSafety

\* mergeSafetyConfig was called without overrides and has returned.
C9_Witness ==
    /\ MergeReturned
    /\ ~IsSome(mg.overrides)
    /\ Merged.llmSafety.enabled

\* C10: for every override, absent or present, the merged configuration has
\* the llmSafety sub-configuration.
C10_MergedHasLLMSafety ==
    MergeReturned => "llmSafety" \in DOMAIN Merged

(***************************************************************************)
(* Properties of the exported checks (SpecChecks).                         *)
(***************************************************************************)
CheckReturned(fn) == ck.pc = "returned" /\ ck.fn = fn

CheckResult == ck.result[1]

\* Scenario C for checkInput alone: under the configuration merged from
\* maxInputLength = 50, the text part of 60 characters gives the length
\* violation and no topic, and the one of 50 characters passes.
ScenarioC_CheckInputRejectsLength ==
    (CheckReturned("checkInput")
       /\ ck.args.config = mergeSafetyConfig(Some([EmptyOverride EXCEPT !.maxInputLength = Some(50)])))
    => /\ ck.args.config.maxInputLength = 50
       /\ ck.args.messages = <<Message("user", <<TextPart(SixtyCharacters)>>)>> =>
             CheckResult = LengthViolation
       /\ ck.args.messages = <<Message("user", <<TextPart(FiftyCharacters)>>)>> =>
             CheckResult.safe

\* A content part satisfies the structural constraints of a configuration.
PartAllowed(part, config) ==
    /\ part.type = "text" => TextLength(part.text) <= config.maxInputLength
    /\ part.type = "image" => config.allowImageInput
    /\ part.type = "file" =>
          /\ config.allowFileUpload
          /\ \E k \in 1..Len(config.allowedFileMimeTypes) :
                config.allowedFileMimeTypes[k] = part.mimeType
          /\ Base64ByteLength(part.data) <= config.maxFileSizeBytes

\* C24: checkInput returns safe = true only if every content part of every
\* message, whatever its role, satisfies the structural constraints of the
\* configuration.
C24_SafeInputIsStructurallyValid ==
    (CheckReturned("checkInput") /\ CheckResult.safe) =>
        \A m \in 1..Len(ck.args.messages) :
           \A n \in 1..Len(ck.args.messages[m].content) :
              PartAllowed(ck.args.messages[m].content[n], ck.args.config)

\* Image input is disabled, the user's text is harmless and an assistant
\* message carries an image: checkInput returned unsafe without a topic.
C24_Witness ==
    /\ CheckReturned("checkInput")
    /\ ~ck.args.config.allowImageInput
    /\ ck.args.messages =
          <<Message("user", <<TextPart(SafeQuestion)>>), Message("assistant", <<ImagePart>>)>>
    /\ ~CheckResult.safe
    /\ CheckResult.flaggedTopics = <<>>

\* Some pattern of the topic matches the text.
TopicMatches(topic, text) ==
    \E phrase \in TOPIC_PATTERNS(topic) : PhraseMatches(text, phrase)

\* The texts of the user-authored messages, one per message.
UserTexts(messages) ==
    {extractText(messages[k].content) : k \in {j \in 1..Len(messages) : messages[j].role = "user"}}

StructurallyValid(messages, config) ==
    \A m \in 1..Len(messages) : \A n \in 1..Len(messages[m].content) :
       PartAllowed(messages[m].content[n], config)

\* C25: checkInput flags a topic only for text of a user-authored message:
\* when no user message matches a pattern of an active topic the result has
\* no topic, whatever assistant and system messages say, and it is unsafe
\* exactly when a part of a message of any role breaks a structural
\* constraint.
C25_OnlyUserMessagesScanned ==
    CheckReturned("checkInput") =>
        /\ \A k \in 1..Len(CheckResult.flaggedTopics) :
              \E text \in UserTexts(ck.args.messages) :
                 TopicMatches(CheckResult.flaggedTopics[k], text)
        /\ (\A text \in UserTexts(ck.args.messages) :
               \A k \in 1..Len(ck.args.config.blockedTopics) :
                  ~TopicMatches(ck.args.config.blockedTopics[k], text))
           => /\ CheckResult.flaggedTopics = <<>>
              /\ CheckResult.safe <=> StructurallyValid(ck.args.messages, ck.args.config)
        /\ ~StructurallyValid(ck.args.messages, ck.args.config) => ~CheckResult.safe

\* A system message says "Kill yourself", the user asks a harmless
\* question, and checkInput returned safe.
C25_Witness ==
    /\ CheckReturned("checkInput")
    /\ ck.args.messages =
          <<Message("system", <<TextPart(Threat)>>), Message("user", <<TextPart(SafeQuestion)>>)>>
    /\ TopicMatches("violence", Threat)
    /\ CheckResult.safe

\* The active topics with a pattern that matches the text.
MatchingTopics(config, text) ==
    {topic \in SeqToSet(config.blockedTopics) : TopicMatches(topic, text)}

\* The text of all user-authored messages, one after the other.
AllUserText(messages) ==
    LET userMessages == UserMessages(messages)
    IN  JoinTexts([k \in 1..Len(userMessages) |-> extractText(userMessages[k].content)],
                  <<" ">>)

\* The output half of C26: checkOutput flags exactly the active topics that
\* match the message's text, and is safe exactly when there is none.
CheckOutputFlagsMatchingTopics ==
    CheckReturned("checkOutput") =>
        LET matching == MatchingTopics(ck.args.config, extractText(ck.args.message.content))
        IN  /\ SeqToSet(CheckResult.flaggedTopics) = matching
            /\ CheckResult.safe <=> matching = {}

\* The input half of C26, for structurally valid input: checkInput flags
\* exactly the active topics that match the text of all user messages.
CheckInputFlagsMatchingTopics ==
    (CheckReturned("checkInput")
       /\ StructurallyValid(ck.args.messages, ck.args.config)) =>
        LET matching == MatchingTopics(ck.args.config, AllUserText(ck.args.messages))
        IN  /\ SeqToSet(CheckResult.flaggedTopics) = matching
            /\ CheckResult.safe <=> matching = {}

\* C26: the flaggedTopics of checkInput and of checkOutput are exactly the
\* topics of the active blockedTopics with a pattern matching the scanned
\* text (input: the text of all user messages; output: the produced
\* message), and the result is safe exactly when there is no such topic.
C26_FlaggedTopicsAreMatchingTopics ==
    CheckInputFlagsMatchingTopics /\ CheckOutputFlagsMatchingTopics

WhitespaceOnly(text) == \A k \in 1..Len(text) : text[k] \in Whitespace

\* C27: when the semantic layer is disabled, or the text is empty or made
\* of whitespace only, checkWithLLM returns safe = true with no topics and
\* does not call the judge.
C27_ClassifierSkipped ==
    (CheckReturned("checkWithLLM")
       /\ (~ck.args.safetyConfig.llmSafety.enabled \/ WhitespaceOnly(ck.args.content))) =>
        /\ ~CheckResult.called
        /\ ~CheckResult.threw
        /\ IsSome(CheckResult.result)
        /\ CheckResult.result[1].safe
        /\ CheckResult.result[1].flaggedTopics = <<>>

\* The semantic layer is enabled, the text is whitespace only, and the
\* judge, had it been called, would have thrown.
C27_Witness ==
    /\ CheckReturned("checkWithLLM")
    /\ ck.args.safetyConfig.llmSafety.enabled
    /\ ck.args.content = <<"\n", " ", "\n">>
    /\ ck.outcome = Some(JudgeThrows)
    /\ ~CheckResult.called

(***************************************************************************)
(* Properties of two requests in flight (SpecConcurrent).                  *)
(***************************************************************************)
Ended(r) == r.pc \in {"completed", "rejected", "refused", "crashed"}

\* The request ended as it would have ended alone: same response, same
\* safety metadata, same checks and calls.
EndedAsAlone(r) ==
    Ended(r) => r = HandlerAlone(r.body, r.inputJudge, r.providerResponse, r.outputJudge)

\* C30: in every interleaving of two requests, each request ends exactly
\* as it would end when run alone with the same answers from the judge and
\* the provider, and the platform default, the one object both read, is
\* unchanged.
C30_RequestsDoNotInterfere ==
    /\ EndedAsAlone(rq)
    /\ EndedAsAlone(other)
    /\ DEFAULT_SAFETY_CONFIG = StartupSafetyConfig

\* Two different requests were in flight together and both have ended, the
\* first with a clean response, the second rejected at the input check.
C30_Witness ==
    /\ rq.pc = "completed"
    /\ other.pc = "rejected"
    /\ rq.body # other.body
    /\ rq.response[1].safetyMeta.outputCheckPassed
    /\ other.response[1].kind = "error"
    /\ IsSome(other.keywordInputCheck)
    /\ ~other.keywordInputCheck[1].safe

(***************************************************************************)
(* Properties of the running server (SpecServer).                          *)
(***************************************************************************)
\* C11: after any sequence of mergeSafetyConfig calls and chat requests
\* (checkInput and checkOutput run inside them), every field of
\* DEFAULT_SAFETY_CONFIG, its two lists included, has its startup value.
C11_DefaultNeverMutated ==
    /\ DEFAULT_SAFETY_CONFIG = StartupSafetyConfig
    /\ DEFAULT_SAFETY_CONFIG.blockedTopics = BlockedTopics
    /\ DEFAULT_SAFETY_CONFIG.allowedFileMimeTypes = DefaultMimeTypes

\* A merge that narrowed the MIME list has returned, and a request went
\* through checkInput and checkOutput, the latter flagging the output.
C11_Witness ==
    /\ mg.pc = "returned"
    /\ mg.overrides = Some([EmptyOverride EXCEPT !.allowedFileMimeTypes = Some(<<"text/plain">>)])
    /\ mg.result[1].allowedFileMimeTypes = <<"text/plain">>
    /\ rq.pc = "refused"
    /\ IsSome(rq.keywordInputCheck)
    /\ IsSome(rq.keywordOutputCheck)
    /\ ~rq.keywordOutputCheck[1].safe

(***************************************************************************)
(* Properties of Chatbot.chat (SpecChatbot).                               *)
(***************************************************************************)
\* The input check of the call c has returned an unsafe result.
InputUnsafe(c) == IsSome(c.inputCheck) /\ ~Truthy(c.inputCheck[1].safe)

\* chat rejected with a SafetyViolationError of the given phase that carries
\* the result of the check.
ViolationThrown(c, phase, result) ==
    /\ c.pc = "thrown"
    /\ c.error[1].name = "SafetyViolationError"
    /\ c.error[1].phase = phase
    /\ c.error[1].result = result

\* The conversation was sent to the target model: line 67 was executed.
Forwarded(c) ==
    \E i \in DOMAIN c.calls :
        /\ c.calls[i].provider = c.request[1].model
        /\ c.calls[i].messages = c.request[1].messages

InputViolationOfSharedModel ==
    /\ cb.pc = "thrown"
    /\ InputUnsafe(cb)
    /\ cb.calls[1].provider = cb.request[1].model

\* The output check of the call c has returned an unsafe result.
OutputUnsafe(c) == IsSome(c.outputCheck) /\ ~Truthy(c.outputCheck[1].safe)

\* C32: when the output check returns unsafe, chat throws a
\* SafetyViolationError with phase "output" that carries the check's result,
\* and no ChatResponse is returned; a ChatResponse that is returned has an
\* output check that passed.
C32_OutputViolationThrows ==
    /\ OutputUnsafe(cb) =>
          /\ ViolationThrown(cb, "output", cb.outputCheck[1])
          /\ cb.result = None
    /\ cb.pc = "returned" => Truthy(cb.result[1].safety.outputCheck.safe)
    /\ IsSome(cb.result) => cb.pc = "returned"

\* The target model answered, the safety model found the answer unsafe, and
\* chat threw.
C32_Witness ==
    /\ cb.pc = "thrown"
    /\ OutputUnsafe(cb)
    /\ cb.assistantMessage = Some(AssistantText(<<"bad", " ", "response">>))
    /\ Truthy(cb.inputCheck[1].safe)
    /\ Len(cb.calls) = 3

\* C33: with skipSafety = true and a registered target model, the only call
\* of chat ever made is the one that forwards the conversation to the target
\* model, made as soon as chat starts, and the response reports both checks
\* as safe.
C33_SkipSafetyMakesOneCall ==
    (IsSome(cb.request) /\ cb.request[1].skipSafety = Some(TRUE)
        /\ cb.request[1].model \in cb.providers) =>
        /\ cb.calls = <<[provider |-> cb.request[1].model,
                         messages |-> cb.request[1].messages]>>
        /\ cb.pc = "returned" =>
              /\ cb.result[1].safety.inputCheck.safe = JsTrue
              /\ cb.result[1].safety.outputCheck.safe = JsTrue
              /\ cb.result[1].message = cb.outcomes[1].message

\* chat returned for a request with skipSafety = true whose safety model, had
\* it been needed, is not registered, and whose conversation has a user
\* message.
C33_Witness ==
    /\ cb.pc = "returned"
    /\ cb.request[1].skipSafety = Some(TRUE)
    /\ cb.request[1].safetyModel = Some("gemini")
    /\ "gemini" \notin cb.providers
    /\ IsSome(LastUserMessage(cb.request[1].messages))

\* C34: for a request whose model is not a registered provider, chat throws
\* the "Unknown model" error and no safety check and no provider call has
\* been made.
C34_UnknownModelThrowsFirst ==
    (IsSome(cb.request) /\ cb.request[1].model \notin cb.providers) =>
        /\ cb.pc = "thrown"
        /\ cb.error = Some([name |-> "Error",
                            message |-> <<"Unknown model: ", cb.request[1].model>>])
        /\ cb.calls = <<>>
        /\ cb.inputCheck = None
        /\ cb.outputCheck = None

\* chat threw for an unknown model on a request that asks for the safety
\* checks and has a user message to check.
C34_Witness ==
    /\ cb.pc = "thrown"
    /\ cb.request[1].model = "gemini"
    /\ "gemini" \notin cb.providers
    /\ cb.request[1].skipSafety = Some(FALSE)
    /\ IsSome(LastUserMessage(cb.request[1].messages))

(***************************************************************************)
(* Properties of SafetyChecker.check (SpecSafetyChecker).                  *)
(***************************************************************************)
\* The text of the safety model's response: its text blocks, concatenated.
ReplyText(reply) == JoinTexts(TextsOf(reply.content), <<>>)

\* The text holds a JSON object that parses.
ContainsJsonObject(text) ==
    \E i \in DOMAIN text : text[i] \in JsonTexts /\ JsonValue(text[i]).kind = "object"

\* C35: whenever the text of the safety model's response holds no JSON
\* object that parses, check returns safe = false, with the reason that the
\* response was unparseable, for the model that was asked.
C35_FailsClosed ==
    (sc.pc = "returned" /\ ~ContainsJsonObject(ReplyText(sc.reply[1]))) =>
        /\ sc.result[1].safe = JsFalse
        /\ sc.result[1].reason =
               Some([kind |-> "string",
                     value |-> <<"Safety model returned unparseable response - failing closed">>])
        /\ sc.result[1].checkedBy = sc.calls[1].provider

\* check returned for a response that is prose without any brace.
C35_Witness ==
    /\ sc.pc = "returned"
    /\ sc.reply = Some(AssistantText(<<"I", " ", "don't", " ", "know", " ", "how", " ", "to", " ",
                                       "respond">>))
    /\ ~Truthy(sc.result[1].safe)

\* The safety model check selects: the override of the call if it names a
\* model, the configured model otherwise, gpt when none was configured.
SelectedSafetyModel ==
    IF IsSome(sc.overrides) /\ IsSome(sc.overrides[1].model)
    THEN sc.overrides[1].model[1]
    ELSE sc.config.model

\* C36: when the selected safety model is not among the registered
\* providers, check throws the "not registered" error and no provider has
\* been called.
C36_UnregisteredSafetyModelThrows ==
    (sc.pc # "idle" /\ SelectedSafetyModel \notin sc.providers) =>
        /\ sc.pc = "thrown"
        /\ sc.error[1].name = "Error"
        /\ sc.error[1].message =
               <<"Safety check model \"", SelectedSafetyModel, "\" is not registered as a provider">>
        /\ sc.calls = <<>>
        /\ sc.result = None

\* check threw for an override that names gemini while gpt, the configured
\* model, is registered.
C36_Witness ==
    /\ sc.pc = "thrown"
    /\ sc.overrides = Some([model |-> Some("gemini"), prompt |-> None])
    /\ sc.config.model \in sc.providers
    /\ "gemini" \notin sc.providers

(***************************************************************************)
(* Failures of the safety model in Chatbot.chat (SpecChatbot).             *)
(***************************************************************************)
\* The safety model of the request: request.safetyModel, gpt by default.
RequestSafetyModel(c) ==
    IF IsSome(c.request[1].safetyModel) THEN c.request[1].safetyModel[1] ELSE "gpt"

\* The request has a user message.
HasUserMessage(c) == \E i \in DOMAIN c.request[1].messages : c.request[1].messages[i].role = "user"

\* chat has reached its input check: the model is registered, the safety
\* layer is on and there is a user message to check.
InputCheckReached(c) ==
    /\ IsSome(c.request)
    /\ c.request[1].model \in c.providers
    /\ c.request[1].skipSafety # Some(TRUE)
    /\ HasUserMessage(c)

\* chat has reached its output check: the target model has answered and the
\* safety layer is on.
OutputCheckReached(c) ==
    /\ IsSome(c.assistantMessage)
    /\ c.request[1].skipSafety # Some(TRUE)

\* The call of the output check, when it has been made, is the call after
\* the forward call.
OutputCheckIndex(c) == IF InputCheckReached(c) THEN 3 ELSE 2

\* chat rejected with error, no ChatResponse was returned.
Propagated(c, error) == c.pc = "thrown" /\ c.error = Some(error) /\ c.result = None

NotRegistered(modelId) ==
    [name |-> "Error",
     message |-> <<"Safety check model \"", modelId, "\" is not registered as a provider">>]

SafetyFailureAtOutput ==
    /\ cb.pc = "thrown"
    /\ Len(cb.outcomes) = 3
    /\ cb.outcomes[3].kind = "throw"
    /\ IsSome(cb.assistantMessage)

\* The safety model is found unregistered at the output check, the request
\* having no user message for an input check.
UnregisteredAtOutput ==
    /\ cb.pc = "thrown"
    /\ Len(cb.outcomes) = 1
    /\ cb.outcomes[1].kind = "reply"
    /\ RequestSafetyModel(cb) \notin cb.providers
    /\ cb.request[1].skipSafety # Some(TRUE)

(***************************************************************************)
(* What the input check of Chatbot.chat evaluates (SpecChatbot).           *)
(***************************************************************************)
\* The positions of the user messages of the request.
UserPositions(c) ==
    {i \in DOMAIN c.request[1].messages : c.request[1].messages[i].role = "user"}

\* The text of the user message sent to the safety model for content.
EvaluationText(content) ==
    <<"Evaluate the following content for safety:", "\n", "\n">> \o contentToPlainText(content)

\* C40: the input check evaluates the last user message of the request and
\* nothing else: its call carries the text of that message alone.  When the
\* request has no user message, the first call made is the forward call,
\* with all the messages, and the input check is reported safe.
C40_InputCheckOfLastUserMessage ==
    /\ (InputCheckReached(cb) /\ cb.calls # <<>>) =>
          LET last == CHOOSE i \in UserPositions(cb) : \A j \in UserPositions(cb) : j <= i
          IN  /\ cb.calls[1].provider = RequestSafetyModel(cb)
              /\ cb.calls[1].messages[2] =
                     Message("user",
                             <<TextPart(EvaluationText(cb.request[1].messages[last].content))>>)
              /\ Len(cb.calls[1].messages) = 2
              /\ cb.calls[1].messages[1].role = "system"
    /\ (IsSome(cb.request) /\ cb.request[1].model \in cb.providers /\ ~HasUserMessage(cb)) =>
          /\ cb.calls # <<>>
          /\ cb.calls[1] = [provider |-> cb.request[1].model,
                            messages |-> cb.request[1].messages]
          /\ cb.inputCheck = Some([safe |-> JsTrue, reason |-> None, checkedBy |-> "gpt"])
          /\ cb.pc = "returned" => cb.result[1].safety.inputCheck.safe = JsTrue

\* chat returned for a conversation whose first user message is a threat
\* and whose last user message is a harmless question.
C40_Witness ==
    /\ cb.pc = "returned"
    /\ Len(cb.request[1].messages) = 3
    /\ cb.request[1].messages[1] = Message("user", <<TextPart(Threat)>>)
    /\ cb.request[1].messages[3] = Message("user", <<TextPart(SafeQuestion)>>)
    /\ cb.request[1].skipSafety = None

\* chat returned for a conversation without a user message, after an output
\* check and no input check.
NoUserMessageAnswered ==
    /\ cb.pc = "returned"
    /\ ~HasUserMessage(cb)
    /\ cb.request[1].skipSafety = None
    /\ Len(cb.calls) = 2

====
